---------------------------- MODULE Spec2Model ----------------------------
(***************************************************************************)
(* A model of the parametric-sketch constraint engine:                     *)
(*   - DrawingManager     (src/src/drawing_manager.rs): vertices and edges *)
(*   - ConstraintManager  (src/src/constraint_manager.rs): the constraint  *)
(*     catalogue, the geometric primitives and the per-drag solver.        *)
(*                                                                         *)
(* Numbers.  The program computes in f32.  The model computes in fixed     *)
(* point: a coordinate, a length or a component of a direction is an       *)
(* integer number of 1/Scale units, and every division truncates.  The     *)
(* positions the model draws its inputs from are chosen so that the        *)
(* lengths that get normalised are whole numbers (3-4-5 triangles), which  *)
(* makes the fixed-point results exact there.                              *)
(*                                                                         *)
(* Option<T> is a sequence of length 0 (None) or 1 (Some).                 *)
(***************************************************************************)
EXTENDS Integers, Sequences, FiniteSets

VARIABLES vertex_map, edge_map, constraint_map, call, drag

vars == <<vertex_map, edge_map, constraint_map, call, drag>>

(***************************************************************************)
(* Fixed-point arithmetic                                                  *)
(***************************************************************************)

\* One unit of the program's coordinates is Scale model units.
Scale == 50

\* `* 500.0`: how far back a Line's origin is pushed to treat it as a Ray.
LineExtent == 500

\* `line_dir * 10.0`: the offset of a generated line's origin from its centre.
BearingOffset == 10

\* 0.001 = 1 / EpsInv: the tolerance of the parallel / coincidence / angle tests.
EpsInv == 1000

\* 0.01 = 1 / DegenerateInv: the shortest bearing line_data_generator accepts.
DegenerateInv == 100

None == <<>>

Some(x) == <<x>>

Abs(a) == IF a < 0 THEN -a ELSE a

\* a / b truncated toward zero (b # 0).
Quot(a, b) == IF (a >= 0) = (b > 0) THEN Abs(a) \div Abs(b) ELSE -(Abs(a) \div Abs(b))

\* The fixed-point value of the real quotient num / den of two numbers of the
\* same scale, without forming num * Scale.
FixDiv(num, den) ==
    LET q == Quot(num, den)
        r == num - q * den
    IN  q * Scale + Quot(r * Scale, den)

RECURSIVE SqrtBetween(_, _, _)
SqrtBetween(n, lo, hi) ==
    IF lo >= hi THEN lo
    ELSE LET mid == (lo + hi + 1) \div 2
         IN  IF mid * mid <= n THEN SqrtBetween(n, mid, hi)
                               ELSE SqrtBetween(n, lo, mid - 1)

\* floor(sqrt(n)), n < 2^31.
ISqrt(n) == SqrtBetween(n, 0, 46340)

\* x < 1/inv for a fixed-point x.
LessThanInv(x, inv) == x * inv < Scale

(***************************************************************************)
(* egui::Pos2 / egui::Vec2 as used by the solver                           *)
(***************************************************************************)

Pos(x, y) == <<x * Scale, y * Scale>>

VAdd(a, b) == <<a[1] + b[1], a[2] + b[2]>>

VSub(a, b) == <<a[1] - b[1], a[2] - b[2]>>

VNeg(a) == <<-a[1], -a[2]>>

\* v * k for a whole number k.
VTimes(v, k) == <<v[1] * k, v[2] * k>>

\* v * s for a fixed-point scalar s.
VScaled(v, s) == <<Quot(v[1] * s, Scale), Quot(v[2] * s, Scale)>>

\* a.dot(b) of two fixed-point vectors, in 1/Scale^2 units.
DotRaw(a, b) == a[1] * b[1] + a[2] * b[2]

\* The cross product a.x * b.y - a.y * b.x, in 1/Scale^2 units.
CrossRaw(a, b) == a[1] * b[2] - a[2] * b[1]

Length(v) == ISqrt(v[1] * v[1] + v[2] * v[2])

Distance(a, b) == Length(VSub(a, b))

\* Vec2::normalized: "safe normalize", the zero vector stays zero.
Normalized(v) ==
    LET len == Length(v)
    IN  IF len <= 0 THEN v ELSE <<Quot(v[1] * Scale, len), Quot(v[2] * Scale, len)>>

\* Vec2::UP
VecUp == <<0, -Scale>>

(***************************************************************************)
(* Geometric primitives: Circle, Line, Ray (ConstraintPath)                *)
(***************************************************************************)

Circle(origin, radius) == [kind |-> "Circle", origin |-> origin, direction |-> <<0, 0>>, radius |-> radius]

Line(origin, direction) == [kind |-> "Line", origin |-> origin, direction |-> direction, radius |-> 0]

Ray(origin, direction) == [kind |-> "Ray", origin |-> origin, direction |-> direction, radius |-> 0]

\* Circle::closest_point
CircleClosestPoint(c, point) ==
    LET raw == VSub(point, c.origin)
        dir == IF LessThanInv(Length(raw), EpsInv) THEN VecUp ELSE raw
    IN  VAdd(c.origin, VScaled(Normalized(dir), c.radius))

\* self.origin + self.direction * projection_length, with the projection
\* length given in 1/Scale^2 units: one truncation for the whole product.
AlongDirection(origin, direction, projRaw) ==
    <<origin[1] + Quot(direction[1] * projRaw, Scale * Scale),
      origin[2] + Quot(direction[2] * projRaw, Scale * Scale)>>

\* Line::closest_point
LineClosestPoint(l, point) ==
    AlongDirection(l.origin, l.direction, DotRaw(VSub(point, l.origin), l.direction))

\* Ray::closest_point: the projection length is clamped to 0 when negative.
RayClosestPoint(r, point) ==
    LET proj == DotRaw(VSub(point, r.origin), r.direction)
    IN  AlongDirection(r.origin, r.direction, IF proj < 0 THEN 0 ELSE proj)

\* The origin of the path whatever the point is.
PathOrigin(path, point) == path.origin

\* ConstraintPath::closest_point
closest_point(path, point) ==
    CASE path.kind = "Circle" -> CircleClosestPoint(path, point)
      [] path.kind = "Line" -> LineClosestPoint(path, point)
      [] path.kind = "Ray" -> RayClosestPoint(path, point)

\* ray_ray_intersection: Some(point) when the two rays cross at parameters
\* t >= 0 and u >= 0, None when they are parallel (|denominator| < 0.001) or
\* cross behind an origin.
ray_ray_intersection(ray1, ray2) ==
    LET d1 == ray1.direction
        d2 == ray2.direction
        delta == VSub(ray2.origin, ray1.origin)
        denominator == CrossRaw(d1, d2)
        tnum == CrossRaw(delta, d2)
        unum == CrossRaw(delta, d1)
        sgn == IF denominator < 0 THEN -1 ELSE 1
    IN  IF Abs(denominator) * EpsInv < Scale * Scale THEN None
        ELSE IF tnum * sgn >= 0 /\ unum * sgn >= 0
             THEN LET t == FixDiv(tnum, denominator)
                  IN  Some(<<ray1.origin[1] + Quot(t * d1[1], Scale),
                             ray1.origin[2] + Quot(t * d1[2], Scale)>>)
             ELSE None

\* ray_circle_intersection: the points of the ray on the circle, the one of
\* the larger parameter first.  The discriminant b*b - 4*a*c is formed as
\* 4 * (a * r^2 - cross^2) (Lagrange's identity), which stays within TLC's
\* 32-bit integers; a zero direction (a = 0) makes both parameters NaN in
\* the program, and NaN >= 0.0 is false.
ray_circle_intersection(ray, circle) ==
    LET d == ray.direction
        delta == VSub(ray.origin, circle.origin)
        a == DotRaw(d, d)
        halfb == DotRaw(d, delta)
        cross == CrossRaw(d, delta)
        far == Abs(cross) > (circle.radius + 1) * (ISqrt(a) + 1)
        disc4 == a * circle.radius * circle.radius - cross * cross
        at(t) == <<ray.origin[1] + Quot(t * d[1], Scale), ray.origin[2] + Quot(t * d[2], Scale)>>
    IN  IF a = 0 \/ far THEN <<>>
        ELSE IF disc4 < 0 THEN <<>>
        ELSE LET s == ISqrt(disc4)
                 t1 == FixDiv(s - halfb, a)
                 t2 == FixDiv(-halfb - s, a)
             IN  (IF s - halfb >= 0 THEN <<at(t1)>> ELSE <<>>)
                 \o (IF -halfb - s >= 0 THEN <<at(t2)>> ELSE <<>>)

(***************************************************************************)
(* The entity graph.  A BTreeMap keyed 0, 1, 2, ... from which nothing is  *)
(* ever removed is a sequence: handle h is the element at index h + 1.    *)
(* A graph g is [vertex_map, edge_map, constraint_map].                    *)
(***************************************************************************)

Handles(map) == 0 .. (Len(map) - 1)

\* The last key itself, not the key after it.
LastKey(map) == IF Len(map) = 0 THEN 0 ELSE Len(map) - 1

\* get_next_id: the last key + 1, or 0 for an empty map.
get_next_id(map) == IF Len(map) = 0 THEN 0 ELSE (Len(map) - 1) + 1

Ok(value) == [tag |-> "Ok", value |-> value]

Err(tag, value) == [tag |-> tag, value |-> value]

EmptyGraph == [vertex_map |-> <<>>, edge_map |-> <<>>, constraint_map |-> <<>>]

\* DrawingManager::get_vertex / get_edge and ConstraintManager::get_constraint
\* on a handle that is present.
get_vertex(g, vh) == g.vertex_map[vh + 1]

get_edge(g, eh) == g.edge_map[eh + 1]

get_constraint(g, ch) == g.constraint_map[ch + 1]

has_vertex(g, vh) == vh \in Handles(g.vertex_map)

has_edge(g, eh) == eh \in Handles(g.edge_map)

\* DrawingManager::add_vertex: always succeeds.
add_vertex(g, position) ==
    LET next_id == get_next_id(g.vertex_map)
    IN  [graph |-> [g EXCEPT !.vertex_map = Append(@, [position |-> position, edge_handles |-> <<>>])],
         ret |-> Ok(next_id)]

\* add_edge with its two existence checks in the other order.
AddEdgeSecondChecked(g, vh_1, vh_2) ==
    IF ~has_vertex(g, vh_2) THEN [graph |-> g, ret |-> Err("VertexNotFound", vh_2)]
    ELSE IF ~has_vertex(g, vh_1) THEN [graph |-> g, ret |-> Err("VertexNotFound", vh_1)]
    ELSE LET next_id == get_next_id(g.edge_map)
             edge == [start_point_vh |-> vh_1, end_point_vh |-> vh_2, constraints |-> <<>>]
             vm1 == [g.vertex_map EXCEPT ![vh_1 + 1].edge_handles = Append(@, next_id)]
             vm2 == [vm1 EXCEPT ![vh_2 + 1].edge_handles = Append(@, next_id)]
         IN  [graph |-> [g EXCEPT !.edge_map = Append(@, edge), !.vertex_map = vm2],
              ret |-> Ok(next_id)]

\* DrawingManager::add_edge: VertexNotFound(vh_1), then VertexNotFound(vh_2),
\* else the edge is inserted and its handle pushed onto vertex 1's and then
\* vertex 2's edge_handles.
add_edge(g, vh_1, vh_2) ==
    IF ~has_vertex(g, vh_1) THEN [graph |-> g, ret |-> Err("VertexNotFound", vh_1)]
    ELSE IF ~has_vertex(g, vh_2) THEN [graph |-> g, ret |-> Err("VertexNotFound", vh_2)]
    ELSE LET next_id == get_next_id(g.edge_map)
             edge == [start_point_vh |-> vh_1, end_point_vh |-> vh_2, constraints |-> <<>>]
             vm1 == [g.vertex_map EXCEPT ![vh_1 + 1].edge_handles = Append(@, next_id)]
             vm2 == [vm1 EXCEPT ![vh_2 + 1].edge_handles = Append(@, next_id)]
         IN  [graph |-> [g EXCEPT !.edge_map = Append(@, edge), !.vertex_map = vm2],
              ret |-> Ok(next_id)]

LengthConstraint(eh) == [kind |-> "LENGTH", edge_1_handle |-> eh, edge_2_handle |-> eh, pivot_vert_handle |-> -1, edge_1_outer_vert_handle |-> -1, edge_2_outer_vert_handle |-> -1]

AngleConstraint(pivot, eh_1, outer_1, eh_2, outer_2) == [kind |-> "ANGLE", edge_1_handle |-> eh_1, edge_2_handle |-> eh_2, pivot_vert_handle |-> pivot, edge_1_outer_vert_handle |-> outer_1, edge_2_outer_vert_handle |-> outer_2]

ParallelConstraint(eh_1, eh_2) == [kind |-> "PARALLEL", edge_1_handle |-> eh_1, edge_2_handle |-> eh_2, pivot_vert_handle |-> -1, edge_1_outer_vert_handle |-> -1, edge_2_outer_vert_handle |-> -1]

\* The match with the two outer vertices of every success arm exchanged.
SharedWithOutersExchanged(e_1_vh_1, e_1_vh_2, e_2_vh_1, e_2_vh_2) ==
    LET a == e_1_vh_1 = e_2_vh_1
        b == e_1_vh_1 = e_2_vh_2
        c == e_1_vh_2 = e_2_vh_1
        d == e_1_vh_2 = e_2_vh_2
    IN  IF e_1_vh_1 = e_1_vh_2 \/ e_2_vh_1 = e_2_vh_2 THEN [tag |-> "DegenerateEdge", value |-> <<>>]
        ELSE IF a /\ ~b /\ ~c /\ ~d THEN [tag |-> "Ok", value |-> <<e_1_vh_1, e_2_vh_2, e_1_vh_2>>]
        ELSE IF ~a /\ b /\ ~c /\ ~d THEN [tag |-> "Ok", value |-> <<e_1_vh_1, e_2_vh_1, e_1_vh_2>>]
        ELSE IF ~a /\ ~b /\ c /\ ~d THEN [tag |-> "Ok", value |-> <<e_1_vh_2, e_2_vh_2, e_1_vh_1>>]
        ELSE IF ~a /\ ~b /\ ~c /\ d THEN [tag |-> "Ok", value |-> <<e_1_vh_2, e_2_vh_1, e_1_vh_1>>]
        ELSE [tag |-> "NoSharedVertex", value |-> <<>>]

\* The match without its arm for two edges that share nothing: the first
\* endpoint of edge 1 is taken for the pivot.
SharedWithoutNoneArm(e_1_vh_1, e_1_vh_2, e_2_vh_1, e_2_vh_2) ==
    LET a == e_1_vh_1 = e_2_vh_1
        b == e_1_vh_1 = e_2_vh_2
        c == e_1_vh_2 = e_2_vh_1
        d == e_1_vh_2 = e_2_vh_2
    IN  IF e_1_vh_1 = e_1_vh_2 \/ e_2_vh_1 = e_2_vh_2 THEN [tag |-> "DegenerateEdge", value |-> <<>>]
        ELSE IF ~a /\ ~b /\ c /\ ~d THEN [tag |-> "Ok", value |-> <<e_1_vh_2, e_1_vh_1, e_2_vh_2>>]
        ELSE IF ~a /\ ~b /\ ~c /\ d THEN [tag |-> "Ok", value |-> <<e_1_vh_2, e_1_vh_1, e_2_vh_1>>]
        ELSE IF a \/ b \/ c \/ d THEN [tag |-> "NoSharedVertex", value |-> <<>>]
        ELSE [tag |-> "Ok", value |-> <<e_1_vh_1, e_1_vh_2, e_2_vh_2>>]

\* The match with each success arm testing only the first pair of its
\* pattern, so that two edges between the same two vertices pass.
SharedWithHalfPatterns(e_1_vh_1, e_1_vh_2, e_2_vh_1, e_2_vh_2) ==
    LET a == e_1_vh_1 = e_2_vh_1
        b == e_1_vh_1 = e_2_vh_2
        c == e_1_vh_2 = e_2_vh_1
        d == e_1_vh_2 = e_2_vh_2
        found(pivot, outer_1, outer_2) == Ok(<<pivot, outer_1, outer_2>>)
    IN  IF e_1_vh_1 = e_1_vh_2 \/ e_2_vh_1 = e_2_vh_2 THEN Err("DegenerateEdge", <<>>)
        ELSE IF (a /\ b) \/ (c /\ d) THEN Err("FullOverlap", <<>>)
        ELSE IF a /\ ~b THEN found(e_1_vh_1, e_1_vh_2, e_2_vh_2)
        ELSE IF ~a /\ b THEN found(e_1_vh_1, e_1_vh_2, e_2_vh_1)
        ELSE IF c /\ ~d THEN found(e_1_vh_2, e_1_vh_1, e_2_vh_2)
        ELSE IF ~c /\ d THEN found(e_1_vh_2, e_1_vh_1, e_2_vh_1)
        ELSE Err("NoSharedVertex", <<>>)

\* find_shared_and_unmatched_vertices: the match on
\* ((e1v1 = e2v1, e1v1 = e2v2), (e1v2 = e2v1, e1v2 = e2v2)), arm by arm.
find_shared_and_unmatched_vertices(e_1_vh_1, e_1_vh_2, e_2_vh_1, e_2_vh_2) ==
    LET a == e_1_vh_1 = e_2_vh_1
        b == e_1_vh_1 = e_2_vh_2
        c == e_1_vh_2 = e_2_vh_1
        d == e_1_vh_2 = e_2_vh_2
        found(pivot, outer_1, outer_2) == Ok(<<pivot, outer_1, outer_2>>)
    IN  IF e_1_vh_1 = e_1_vh_2 \/ e_2_vh_1 = e_2_vh_2 THEN Err("DegenerateEdge", <<>>)
        ELSE IF (a /\ b) \/ (c /\ d) THEN Err("FullOverlap", <<>>)
        ELSE IF a /\ ~b /\ ~c /\ ~d THEN found(e_1_vh_1, e_1_vh_2, e_2_vh_2)
        ELSE IF ~a /\ b /\ ~c /\ ~d THEN found(e_1_vh_1, e_1_vh_2, e_2_vh_1)
        ELSE IF ~a /\ ~b /\ c /\ ~d THEN found(e_1_vh_2, e_1_vh_1, e_2_vh_2)
        ELSE IF ~a /\ ~b /\ ~c /\ d THEN found(e_1_vh_2, e_1_vh_1, e_2_vh_1)
        ELSE Err("NoSharedVertex", <<>>)

\* ConstraintManager::add_length_constraint
add_length_constraint(g, eh) ==
    IF ~has_edge(g, eh) THEN [graph |-> g, ret |-> Err("ConstraintNotAdded", <<>>)]
    ELSE LET next_id == get_next_id(g.constraint_map)
         IN  [graph |-> [g EXCEPT !.constraint_map = Append(@, LengthConstraint(eh))],
              ret |-> Ok(next_id)]

\* add_angle_constraint that stores the constraint before it validates the
\* two edges.
AngleStoredBeforeCheck(g, eh_1, eh_2) ==
    IF ~has_edge(g, eh_1) \/ ~has_edge(g, eh_2) THEN [graph |-> g, ret |-> Err("ConstraintNotAdded", <<>>)]
    ELSE LET edge_1 == get_edge(g, eh_1)
             edge_2 == get_edge(g, eh_2)
             verts == find_shared_and_unmatched_vertices(edge_1.start_point_vh, edge_1.end_point_vh, edge_2.start_point_vh, edge_2.end_point_vh)
             next_id == get_next_id(g.constraint_map)
             pivot == IF verts.tag = "Ok" THEN verts.value[1] ELSE -1
             outer_1 == IF verts.tag = "Ok" THEN verts.value[2] ELSE -1
             outer_2 == IF verts.tag = "Ok" THEN verts.value[3] ELSE -1
         IN  [graph |-> [g EXCEPT !.constraint_map = Append(@, AngleConstraint(pivot, eh_1, outer_1, eh_2, outer_2))],
              ret |-> IF verts.tag = "Ok" THEN Ok(next_id) ELSE verts]

\* ConstraintManager::add_angle_constraint
add_angle_constraint(g, eh_1, eh_2) ==
    IF ~has_edge(g, eh_1) \/ ~has_edge(g, eh_2) THEN [graph |-> g, ret |-> Err("ConstraintNotAdded", <<>>)]
    ELSE LET edge_1 == get_edge(g, eh_1)
             edge_2 == get_edge(g, eh_2)
             verts == find_shared_and_unmatched_vertices(edge_1.start_point_vh, edge_1.end_point_vh, edge_2.start_point_vh, edge_2.end_point_vh)
         IN  IF verts.tag # "Ok" THEN [graph |-> g, ret |-> verts]
             ELSE LET next_id == get_next_id(g.constraint_map)
                      ac == AngleConstraint(verts.value[1], eh_1, verts.value[2], eh_2, verts.value[3])
                  IN  [graph |-> [g EXCEPT !.constraint_map = Append(@, ac)], ret |-> Ok(next_id)]

\* ConstraintManager::add_parallel_constraint: the new handle is pushed onto
\* edge 1's and then edge 2's constraints.
add_parallel_constraint(g, edge_1_handle, edge_2_handle) ==
    IF ~has_edge(g, edge_1_handle) \/ ~has_edge(g, edge_2_handle) THEN [graph |-> g, ret |-> Err("ConstraintNotAdded", <<>>)]
    ELSE LET next_id == get_next_id(g.constraint_map)
             em1 == [g.edge_map EXCEPT ![edge_1_handle + 1].constraints = Append(@, next_id)]
             em2 == [em1 EXCEPT ![edge_2_handle + 1].constraints = Append(@, next_id)]
         IN  [graph |-> [g EXCEPT !.constraint_map = Append(@, ParallelConstraint(edge_1_handle, edge_2_handle)), !.edge_map = em2],
              ret |-> Ok(next_id)]

(***************************************************************************)
(* The solver: ConstraintManager::solve_for_vertex                         *)
(***************************************************************************)

\* constraints_to_ignore.contains(ch)
Contains(vec, x) == \E i \in 1 .. Len(vec) : vec[i] = x

\* The handles of a map in increasing order (the BTreeMap's iteration order).
HandleSeq(map) == [i \in 1 .. Len(map) |-> i - 1]

IsEndpoint(edge, vh) == edge.end_point_vh = vh \/ edge.start_point_vh = vh

\* The four buckets of solve_for_vertex, each in increasing handle order.
length_end_constraints(g, vh, ignore) ==
    LET hit(ch) == /\ ~Contains(ignore, ch)
                   /\ get_constraint(g, ch).kind = "LENGTH"
                   /\ IsEndpoint(get_edge(g, get_constraint(g, ch).edge_1_handle), vh)
    IN  SelectSeq(HandleSeq(g.constraint_map), hit)

angle_center_constraints(g, vh, ignore) ==
    LET hit(ch) == /\ ~Contains(ignore, ch)
                   /\ get_constraint(g, ch).kind = "ANGLE"
                   /\ get_constraint(g, ch).pivot_vert_handle = vh
    IN  SelectSeq(HandleSeq(g.constraint_map), hit)

angle_end_constraints(g, vh, ignore) ==
    LET hit(ch) == /\ ~Contains(ignore, ch)
                   /\ get_constraint(g, ch).kind = "ANGLE"
                   /\ get_constraint(g, ch).pivot_vert_handle # vh
                   /\ \/ get_constraint(g, ch).edge_1_outer_vert_handle = vh
                      \/ get_constraint(g, ch).edge_2_outer_vert_handle = vh
    IN  SelectSeq(HandleSeq(g.constraint_map), hit)

parallel_end_constraints(g, vh, ignore) ==
    LET hit(ch) == /\ ~Contains(ignore, ch)
                   /\ get_constraint(g, ch).kind = "PARALLEL"
                   /\ \/ IsEndpoint(get_edge(g, get_constraint(g, ch).edge_1_handle), vh)
                      \/ IsEndpoint(get_edge(g, get_constraint(g, ch).edge_2_handle), vh)
    IN  SelectSeq(HandleSeq(g.constraint_map), hit)

\* Edge::direction_from_handle: the unit vector from the edge's start to its end.
direction_from_handle(g, eh) ==
    LET edge == get_edge(g, eh)
    IN  Normalized(VSub(get_vertex(g, edge.end_point_vh).position, get_vertex(g, edge.start_point_vh).position))

\* |atan2(delta.y, delta.x)| <= 0.001: delta points along +x (atan2(0, 0) = 0).
AngleNearZero(delta) ==
    \/ delta = <<0, 0>>
    \/ delta[1] > 0 /\ Abs(delta[2]) * EpsInv <= delta[1]

\* |PI - atan2(delta.y, delta.x)| <= 0.001: delta points along -x, from above.
AngleNearPi(delta) == delta[1] < 0 /\ delta[2] >= 0 /\ delta[2] * EpsInv <= -delta[1]

\* The test of the hard-lock pre-check on one angle-center constraint:
\* angle.abs() > 0.001 || (PI - angle).abs() > 0.001.
ArmsLock(dir_1, dir_2) ==
    LET delta == VSub(dir_2, dir_1)
    IN  ~AngleNearZero(delta) \/ ~AngleNearPi(delta)

\* solve_for_vertex without its pre-check: no vertex is locked by it.
NoHardLock(g, vh, ignore) == FALSE

\* The pre-check loop over the angle-center bucket.
HardLocked(g, vh, ignore) ==
    LET acc == angle_center_constraints(g, vh, ignore)
    IN  \E i \in 1 .. Len(acc) :
            ArmsLock(direction_from_handle(g, get_constraint(g, acc[i]).edge_1_handle),
                     direction_from_handle(g, get_constraint(g, acc[i]).edge_2_handle))

\* line_data_generator: panics when the two vertices are less than 0.01
\* apart, else (center + dir * 10, dir).
line_data_generator(g, center_vh, end_vh) ==
    LET line_dir == VSub(get_vertex(g, end_vh).position, get_vertex(g, center_vh).position)
        dir == Normalized(line_dir)
    IN  IF LessThanInv(Length(line_dir), DegenerateInv)
        THEN [panic |-> TRUE, origin |-> <<0, 0>>, direction |-> <<0, 0>>]
        ELSE [panic |-> FALSE, origin |-> VAdd(get_vertex(g, center_vh).position, VTimes(dir, BearingOffset)), direction |-> dir]

\* The circle of a length constraint with the live length as its radius.
LengthPathLive(g, vh, fixed_pos, ch) ==
    LET edge == get_edge(g, get_constraint(g, ch).edge_1_handle)
        other_vh == IF edge.start_point_vh = vh THEN edge.end_point_vh ELSE edge.start_point_vh
        other == get_vertex(g, other_vh).position
    IN  [panic |-> FALSE, path |-> Circle(other, Distance(get_vertex(g, vh).position, other))]

\* 2a: the circle of one length constraint.
LengthPath(g, vh, fixed_pos, ch) ==
    LET edge == get_edge(g, get_constraint(g, ch).edge_1_handle)
        other_vh == IF edge.start_point_vh = vh THEN edge.end_point_vh ELSE edge.start_point_vh
        other == get_vertex(g, other_vh).position
    IN  [panic |-> FALSE, path |-> Circle(other, Distance(fixed_pos, other))]

PathOf(kind, data) ==
    [panic |-> data.panic,
     path |-> [kind |-> kind, origin |-> data.origin, direction |-> data.direction, radius |-> 0]]

\* 2b: the ray of one angle-end constraint.
AngleEndPath(g, vh, ch) == PathOf("Ray", line_data_generator(g, get_constraint(g, ch).pivot_vert_handle, vh))

\* 2c: the line of one angle-center constraint.
AngleCenterPath(g, vh, ch) == PathOf("Line", line_data_generator(g, get_constraint(g, ch).pivot_vert_handle, vh))

\* 2d: the line of one parallel constraint.
ParallelPath(g, vh, ch) ==
    LET edge_1 == get_edge(g, get_constraint(g, ch).edge_1_handle)
        edge_2 == get_edge(g, get_constraint(g, ch).edge_2_handle)
    IN  IF edge_1.start_point_vh = vh \/ edge_1.end_point_vh = vh
        THEN PathOf("Line", line_data_generator(g, edge_1.start_point_vh, edge_1.end_point_vh))
        ELSE PathOf("Line", line_data_generator(g, edge_2.start_point_vh, edge_2.end_point_vh))

\* The loci with the parallel lines pushed before the angle-end rays.
PathsLinesFirst(g, vh, fixed_pos, ignore) ==
    LET lec == length_end_constraints(g, vh, ignore)
        aec == angle_end_constraints(g, vh, ignore)
        acc == angle_center_constraints(g, vh, ignore)
        pec == parallel_end_constraints(g, vh, ignore)
    IN  [i \in 1 .. Len(lec) |-> LengthPath(g, vh, fixed_pos, lec[i])]
        \o [i \in 1 .. Len(pec) |-> ParallelPath(g, vh, pec[i])]
        \o [i \in 1 .. Len(aec) |-> AngleEndPath(g, vh, aec[i])]
        \o [i \in 1 .. Len(acc) |-> AngleCenterPath(g, vh, acc[i])]

\* constraint_paths, in the order the code pushes them: circles, rays,
\* angle-center lines, parallel lines.
constraint_paths(g, vh, fixed_pos, ignore) ==
    LET lec == length_end_constraints(g, vh, ignore)
        aec == angle_end_constraints(g, vh, ignore)
        acc == angle_center_constraints(g, vh, ignore)
        pec == parallel_end_constraints(g, vh, ignore)
    IN  [i \in 1 .. Len(lec) |-> LengthPath(g, vh, fixed_pos, lec[i])]
        \o [i \in 1 .. Len(aec) |-> AngleEndPath(g, vh, aec[i])]
        \o [i \in 1 .. Len(acc) |-> AngleCenterPath(g, vh, acc[i])]
        \o [i \in 1 .. Len(pec) |-> ParallelPath(g, vh, pec[i])]

\* A Line as the Ray that starts 500 units behind its origin.
AsRay(l) == Ray(VSub(l.origin, VTimes(l.direction, LineExtent)), l.direction)

\* The coincidence test that never finds a point on the line.
NeverOnLine(l, p) == FALSE

\* l.closest_point(p).distance(p) < 0.001
OnLine(l, p) == LessThanInv(Distance(LineClosestPoint(l, p), p), EpsInv)

\* One step of the fold of intersect_paths: the new valid_path.
PairReduce(current, next) ==
    CASE current.kind = "Circle" /\ next.kind = "Circle" -> Some(current)
      [] current.kind = "Line" /\ next.kind = "Line" ->
            IF ray_ray_intersection(AsRay(current), AsRay(next)) # None THEN None
            ELSE IF OnLine(next, current.origin) THEN Some(current) ELSE None
      [] current.kind = "Ray" /\ next.kind = "Ray" ->
            IF ray_ray_intersection(current, next) # None THEN None
            ELSE IF OnLine(next, current.origin) THEN Some(Ray(current.origin, current.direction)) ELSE None
      [] current.kind = "Circle" /\ next.kind \in {"Line", "Ray"} -> None
      [] current.kind \in {"Line", "Ray"} /\ next.kind = "Circle" -> None
      [] current.kind = "Line" /\ next.kind = "Ray" ->
            IF ray_ray_intersection(AsRay(current), next) # None THEN None
            ELSE IF OnLine(current, next.origin) THEN Some(next) ELSE None
      [] current.kind = "Ray" /\ next.kind = "Line" ->
            IF ray_ray_intersection(AsRay(next), current) # None THEN None
            ELSE IF OnLine(next, current.origin) THEN Some(current) ELSE None

RECURSIVE FoldPaths(_, _, _)
FoldPaths(valid_path, paths, i) ==
    IF i > Len(paths) - 1 \/ valid_path = None THEN valid_path
    ELSE FoldPaths(PairReduce(valid_path[1], paths[i + 1]), paths, i + 1)

\* intersect_paths
intersect_paths(paths) ==
    IF Len(paths) = 0 THEN None ELSE FoldPaths(Some(paths[1]), paths, 1)

VertexResponse(state, valid_path, new_pos) == [state |-> state, valid_path |-> valid_path, new_pos |-> new_pos]

\* ConstraintManager::solve_for_vertex.  state "Abort" is a panic.
solve_for_vertex(g, vh, fixed_pos, try_pos, ignore) ==
    IF /\ Len(length_end_constraints(g, vh, ignore)) = 0
       /\ Len(angle_center_constraints(g, vh, ignore)) = 0
       /\ Len(angle_end_constraints(g, vh, ignore)) = 0
       /\ Len(parallel_end_constraints(g, vh, ignore)) = 0
    THEN VertexResponse("Free", None, Some(try_pos))
    ELSE IF HardLocked(g, vh, ignore) THEN VertexResponse("Locked", None, None)
    ELSE LET built == constraint_paths(g, vh, fixed_pos, ignore)
             valid_path == intersect_paths([i \in 1 .. Len(built) |-> built[i].path])
         IN  IF \E i \in 1 .. Len(built) : built[i].panic THEN VertexResponse("Abort", None, None)
             ELSE IF valid_path # None
                  THEN VertexResponse("Partial", valid_path, Some(closest_point(valid_path[1], try_pos)))
                  ELSE VertexResponse("Locked", None, None)

(***************************************************************************)
(* The solver: ConstraintManager::solve_for_edge                           *)
(***************************************************************************)

EdgeResponse(state, valid_paths, new_pos) == [state |-> state, valid_paths |-> valid_paths, new_pos |-> new_pos]

\* EdgeSolverResponse::default(): SolverState::default() is Free.
EdgeResponseDefault == EdgeResponse("Free", None, None)

\* EdgeSolverResponse::locked()
EdgeResponseLocked == EdgeResponse("Locked", None, None)

\* The Line of the dragged edge: through try_pos, along the current edge.
EdgeLine(g, eh, try_pos) ==
    LET edge == get_edge(g, eh)
        line_pt_1 == get_vertex(g, edge.start_point_vh).position
        line_pt_2 == get_vertex(g, edge.end_point_vh).position
    IN  Line(try_pos, Normalized(VSub(line_pt_2, line_pt_1)))

\* intersect_func: the edge line, as a ray from 500 units back, against a path.
intersect_func(edge_line, path) ==
    CASE path.kind = "Line" -> ray_ray_intersection(AsRay(edge_line), AsRay(path))
      [] path.kind = "Ray" -> ray_ray_intersection(AsRay(edge_line), path)
      [] path.kind = "Circle" ->
            LET valid_points == ray_circle_intersection(AsRay(edge_line), path)
            IN  IF Len(valid_points) = 0 THEN None ELSE Some(valid_points[1])

\* Pos2::default()
PosDefault == <<0, 0>>

\* The free endpoint left where it was.
FollowNothing(own_fixed, other_fixed, other_new) == own_fixed

\* The free endpoint follows the solved one: own_fixed + (other_new - other_fixed).
FollowDelta(own_fixed, other_fixed, other_new) == VAdd(own_fixed, VSub(other_new, other_fixed))

\* The branch of solve_for_edge where exactly one endpoint is Free.
OneFreeResponse(edge_line, v1_free, partial_path, v1_fixed_pos, v2_fixed_pos) ==
    LET inter == intersect_func(edge_line, partial_path)
        solved == IF inter # None THEN inter[1] ELSE PosDefault
    IN  IF v1_free
        THEN EdgeResponse("Partial", Some(<<partial_path>>), Some(<<FollowDelta(v1_fixed_pos, v2_fixed_pos, solved), solved>>))
        ELSE EdgeResponse("Partial", Some(<<partial_path>>), Some(<<solved, FollowDelta(v2_fixed_pos, v1_fixed_pos, solved)>>))

\* The branch of solve_for_edge where both endpoints are Partial.
BothPartialResponse(edge_line, valid_path_1, valid_path_2) ==
    LET inter_1 == intersect_func(edge_line, valid_path_1)
        inter_2 == intersect_func(edge_line, valid_path_2)
    IN  IF inter_1 = None THEN EdgeResponseLocked
        ELSE IF inter_2 = None THEN EdgeResponseLocked
        ELSE EdgeResponse("Partial", Some(<<valid_path_1, valid_path_2>>), Some(<<inter_1[1], inter_2[1]>>))

\* The combination of the two endpoint responses.
CombineEndpoints(edge_line, r1, r2, v1_fixed_pos, v2_fixed_pos) ==
    IF r1.state = "Locked" THEN EdgeResponseLocked
    ELSE IF r2.state = "Locked" THEN EdgeResponseLocked
    ELSE IF r1.state = "Free" /\ r2.state = "Free" THEN EdgeResponseDefault
    ELSE IF r1.state = "Free" THEN OneFreeResponse(edge_line, TRUE, r2.valid_path[1], v1_fixed_pos, v2_fixed_pos)
    ELSE IF r2.state = "Free" THEN OneFreeResponse(edge_line, FALSE, r1.valid_path[1], v1_fixed_pos, v2_fixed_pos)
    ELSE BothPartialResponse(edge_line, r1.valid_path[1], r2.valid_path[1])

\* The solve of endpoint n (1 or 2) of edge eh as solve_for_edge runs it:
\* with the edge's constraints as the ignore list.
EndpointSolve(g, eh, n, fixed_pos, try_pos) ==
    LET edge == get_edge(g, eh)
    IN  solve_for_vertex(g, IF n = 1 THEN edge.start_point_vh ELSE edge.end_point_vh, fixed_pos, try_pos, edge.constraints)

\* ConstraintManager::solve_for_edge.  get_edge(eh).unwrap() panics on an
\* absent handle; a panic of an endpoint solve ends the call.
solve_for_edge(g, eh, fixed_pos, try_pos, v1_fixed_pos, v1_try_pos, v2_fixed_pos, v2_try_pos) ==
    IF ~has_edge(g, eh) THEN EdgeResponse("Abort", None, None)
    ELSE LET r1 == EndpointSolve(g, eh, 1, v1_fixed_pos, v1_try_pos)
             r2 == EndpointSolve(g, eh, 2, v2_fixed_pos, v2_try_pos)
         IN  IF r1.state = "Abort" \/ r2.state = "Abort" THEN EdgeResponse("Abort", None, None)
             ELSE CombineEndpoints(EdgeLine(g, eh, try_pos), r1, r2, v1_fixed_pos, v2_fixed_pos)

(***************************************************************************)
(* State machine.  The three maps are the program's state; call records    *)
(* the last call of the interface: its name, its arguments and what it     *)
(* returned.  CanvasView::default wires the managers together, so the      *)
(* drawing_manager of the ConstraintManager is always Some.                *)
(***************************************************************************)

\* Bounds of the model.
MaxVertices == 4

MaxEdges == 2

MaxConstraints == 2

Graph == [vertex_map |-> vertex_map, edge_map |-> edge_map, constraint_map |-> constraint_map]

\* The position add_vertex is called with when the graph is built from
\* nothing: no operation of that interface reads a position.
BuildPositions == {Pos(3, 4)}

\* The lattice the solver's inputs are drawn from: every two of its points
\* are a whole number of units apart.
Lattice == {Pos(0, 0), Pos(3, 0), Pos(6, 0), Pos(3, 4), Pos(3, -4)}

\* The displacements of an edge drag; the last one is longer than LineExtent.
DragDeltas == {Pos(0, 0), Pos(3, 0), Pos(0, -4), Pos(3, 4), Pos(600, 0)}

SetGraph(g) ==
    /\ vertex_map' = g.vertex_map
    /\ edge_map' = g.edge_map
    /\ constraint_map' = g.constraint_map

AddVertex(position) ==
    /\ Len(vertex_map) < MaxVertices
    /\ LET r == add_vertex(Graph, position)
       IN  /\ SetGraph(r.graph)
           /\ call' = [op |-> "add_vertex", args |-> <<position>>, ret |-> r.ret]
           /\ UNCHANGED drag

AddEdge(vh_1, vh_2) ==
    /\ Len(edge_map) < MaxEdges
    /\ LET r == add_edge(Graph, vh_1, vh_2)
       IN  /\ SetGraph(r.graph)
           /\ call' = [op |-> "add_edge", args |-> <<vh_1, vh_2>>, ret |-> r.ret]
           /\ UNCHANGED drag

AddLengthConstraint(eh) ==
    /\ Len(constraint_map) < MaxConstraints
    /\ LET r == add_length_constraint(Graph, eh)
       IN  /\ SetGraph(r.graph)
           /\ call' = [op |-> "add_length_constraint", args |-> <<eh>>, ret |-> r.ret]
           /\ UNCHANGED drag

AddAngleConstraint(eh_1, eh_2) ==
    /\ Len(constraint_map) < MaxConstraints
    /\ LET r == add_angle_constraint(Graph, eh_1, eh_2)
       IN  /\ SetGraph(r.graph)
           /\ call' = [op |-> "add_angle_constraint", args |-> <<eh_1, eh_2>>, ret |-> r.ret]
           /\ UNCHANGED drag

AddParallelConstraint(eh_1, eh_2) ==
    /\ Len(constraint_map) < MaxConstraints
    /\ LET r == add_parallel_constraint(Graph, eh_1, eh_2)
       IN  /\ SetGraph(r.graph)
           /\ call' = [op |-> "add_parallel_constraint", args |-> <<eh_1, eh_2>>, ret |-> r.ret]
           /\ UNCHANGED drag

\* The ignore lists a solve is called with: none, one handle, or all of them.
IgnoreLists == {<<>>, HandleSeq(constraint_map)} \cup {<<ch>> : ch \in Handles(constraint_map)}

\* solve_for_vertex and solve_for_edge take &self: they read the graph and
\* write nothing, so what a solve returns does not depend on the call before
\* it.  Solves are therefore taken after the calls that build the graph, and
\* not again after each other.
GraphBuilt == call.op \notin {"solve_for_vertex", "solve_for_edge"}

SolveForVertex(vh, fixed_pos, try_pos, ignore) ==
    /\ GraphBuilt
    /\ call' = [op |-> "solve_for_vertex",
                args |-> [vh |-> vh, fixed_pos |-> fixed_pos, try_pos |-> try_pos, ignore |-> ignore],
                ret |-> solve_for_vertex(Graph, vh, fixed_pos, try_pos, ignore)]
    /\ UNCHANGED <<vertex_map, edge_map, constraint_map, drag>>

\* EdgeDisplay::interact calls solve_for_edge with the endpoints' pre-drag
\* positions and with every tentative position moved by the same delta.
SolveForEdge(eh, fixed_pos, delta, v1_fixed_pos, v2_fixed_pos) ==
    /\ GraphBuilt
    /\ call' = [op |-> "solve_for_edge",
                args |-> [eh |-> eh, fixed_pos |-> fixed_pos, try_pos |-> VAdd(fixed_pos, delta),
                          v1_fixed_pos |-> v1_fixed_pos, v1_try_pos |-> VAdd(v1_fixed_pos, delta),
                          v2_fixed_pos |-> v2_fixed_pos, v2_try_pos |-> VAdd(v2_fixed_pos, delta)],
                ret |-> solve_for_edge(Graph, eh, fixed_pos, VAdd(fixed_pos, delta), v1_fixed_pos, VAdd(v1_fixed_pos, delta), v2_fixed_pos, VAdd(v2_fixed_pos, delta))]
    /\ UNCHANGED <<vertex_map, edge_map, constraint_map, drag>>

NoCall == [op |-> "none", args |-> <<>>, ret |-> Ok(0)]

\* The fields of the display of the entity that is dragged or was dragged
\* last (VertexDisplay::new, EdgeDisplay::new: nothing is dragged and every
\* position is (0, 0)), and the number of drag-update ticks made so far.
NoDrag ==
    [entity |-> "none", handle |-> 0, is_being_dragged |-> FALSE,
     pre_drag_position |-> <<0, 0>>, current_drag_position |-> <<0, 0>>,
     pre_drag_start_point |-> <<0, 0>>, pre_drag_end_point |-> <<0, 0>>, ticks |-> 0]

(***************************************************************************)
(* Spec: the graph-building interface, from the empty graph.               *)
(***************************************************************************)

Init ==
    /\ vertex_map = <<>>
    /\ edge_map = <<>>
    /\ constraint_map = <<>>
    /\ call = NoCall
    /\ drag = NoDrag

Next ==
    \/ \E position \in BuildPositions : AddVertex(position)
    \/ \E vh_1, vh_2 \in 0 .. MaxVertices : AddEdge(vh_1, vh_2)
    \/ \E eh \in 0 .. MaxEdges : AddLengthConstraint(eh)
    \/ \E eh_1, eh_2 \in 0 .. MaxEdges : AddAngleConstraint(eh_1, eh_2)
    \/ \E eh_1, eh_2 \in 0 .. MaxEdges : AddParallelConstraint(eh_1, eh_2)

Spec == Init /\ [][Next]_vars

(***************************************************************************)
(* SolverSpec: the solver on a sketch of four vertices joined in a chain   *)
(* by three edges (the shape CanvasView::setup_test_values_* build), to    *)
(* which constraints are added and on which vertices and edges are solved. *)
(***************************************************************************)

\* The vertex positions of the sketches: three vertices in a row and one
\* off the row; the same with vertices 1 and 2 on top of each other.
Layouts ==
    { <<Pos(0, 0), Pos(3, 0), Pos(6, 0), Pos(3, 4)>>,
      <<Pos(0, 0), Pos(3, 0), Pos(3, 0), Pos(3, 4)>> }

RECURSIVE WithVertices(_, _, _)
WithVertices(g, layout, i) ==
    IF i > Len(layout) THEN g ELSE WithVertices(add_vertex(g, layout[i]).graph, layout, i + 1)

\* add_vertex four times, then add_edge(0, 1), add_edge(1, 2), add_edge(2, 3).
Sketch(layout) ==
    LET g0 == WithVertices(EmptyGraph, layout, 1)
        g1 == add_edge(g0, 0, 1).graph
        g2 == add_edge(g1, 1, 2).graph
    IN  add_edge(g2, 2, 3).graph

SolverInit ==
    /\ \E layout \in Layouts :
          /\ vertex_map = Sketch(layout).vertex_map
          /\ edge_map = Sketch(layout).edge_map
    /\ constraint_map = <<>>
    /\ call = NoCall
    /\ drag = NoDrag

\* The fixed positions of a vertex drag: where the vertex is, or another
\* point of the lattice (where it was before earlier ticks moved it).
FixedPositions(vh) ==
    {Pos(3, -4)} \cup (IF has_vertex(Graph, vh) THEN {get_vertex(Graph, vh).position} ELSE {})

\* The endpoints' positions an edge display holds for an edge handle that
\* the edge map does not have.
StalePositions == {Pos(0, 0), Pos(3, 0)}

SolverNext ==
    \/ \E eh \in 0 .. Len(edge_map) : AddLengthConstraint(eh)
    \/ \E eh_1, eh_2 \in 0 .. Len(edge_map) : AddAngleConstraint(eh_1, eh_2)
    \/ \E eh_1, eh_2 \in 0 .. Len(edge_map) : AddParallelConstraint(eh_1, eh_2)
    \/ \E vh \in 0 .. Len(vertex_map), try_pos \in Lattice, ignore \in IgnoreLists :
          \E fixed_pos \in FixedPositions(vh) : SolveForVertex(vh, fixed_pos, try_pos, ignore)
    \/ \E eh \in Handles(edge_map), delta \in DragDeltas, grab \in {1, 2} :
          LET edge == get_edge(Graph, eh)
              p1 == get_vertex(Graph, edge.start_point_vh).position
              p2 == get_vertex(Graph, edge.end_point_vh).position
          IN  SolveForEdge(eh, IF grab = 1 THEN p1 ELSE p2, delta, p1, p2)
    \/ \E delta \in DragDeltas, p1, p2 \in StalePositions : SolveForEdge(Len(edge_map), p1, delta, p1, p2)

SolverSpec == SolverInit /\ [][SolverNext]_vars

(***************************************************************************)
(* DragSpec: one drag after another on a sketch whose constraints were     *)
(* added before the first drag (CanvasView::setup_test_values_* add them   *)
(* when the view is built).  A step is one frame of VertexDisplay::interact *)
(* or EdgeDisplay::interact for the display that is dragged or begins to be *)
(* dragged.  One display is followed at a time: frames in which a second    *)
(* display under the cursor begins a drag of its own are left out.  The     *)
(* cursor stays inside the interact rectangle, so hover_pos() is Some.  A   *)
(* panic of the solver ends the program.                                    *)
(***************************************************************************)

\* The number of drag-update ticks the model follows.
MaxTicks == 2

\* VertexDisplay::is_point_on_vertex
is_point_on_vertex(g, vh, point, radius) == Distance(point, get_vertex(g, vh).position) <= radius

\* EdgeDisplay::get_end_points
get_end_points(g, eh) ==
    <<get_vertex(g, get_edge(g, eh).start_point_vh).position, get_vertex(g, get_edge(g, eh).end_point_vh).position>>

\* EdgeDisplay::is_point_on_edge: the distance from the point to the segment
\* is at most half the thickness.
is_point_on_edge(g, eh, point, thickness) ==
    LET end_points == get_end_points(g, eh)
        line_vector == VSub(end_points[2], end_points[1])
        line_length_sq == DotRaw(line_vector, line_vector)
        dot == DotRaw(VSub(point, end_points[1]), line_vector)
        closest ==
            IF dot <= 0 THEN end_points[1]
            ELSE IF dot >= line_length_sq THEN end_points[2]
            ELSE <<end_points[1][1] + Quot(line_vector[1] * dot, line_length_sq),
                   end_points[1][2] + Quot(line_vector[2] * dot, line_length_sq)>>
    IN  IF line_length_sq * EpsInv < Scale * Scale
        THEN 2 * Distance(point, end_points[1]) <= thickness
        ELSE 2 * Distance(point, closest) <= thickness

\* `10.0`: the radius and the thickness the cursor is tested with.
GrabSize == 10

\* The program has not panicked.
Running == ~(call.op \in {"solve_for_vertex", "solve_for_edge"} /\ call.ret.state = "Abort")

WithPosition(map, vh, position) == [map EXCEPT ![vh + 1].position = position]

\* One frame of VertexDisplay::interact for vertex vh, with the cursor at
\* cursor_pt and the drag gesture on (dragged) or off.
VertexInteract(vh, cursor_pt, dragged) ==
    LET mine == drag.is_being_dragged /\ drag.entity = "vertex" /\ drag.handle = vh
        begins == ~drag.is_being_dragged /\ dragged /\ is_point_on_vertex(Graph, vh, cursor_pt, GrabSize * Scale)
    IN  /\ Running
        /\ mine \/ begins
        /\ IF mine /\ ~dragged
           THEN /\ drag' = [drag EXCEPT !.is_being_dragged = FALSE]
                /\ UNCHANGED <<vertex_map, edge_map, constraint_map, call>>
           ELSE /\ drag.ticks < MaxTicks
                /\ \E pre_drag_position \in {IF begins THEN get_vertex(Graph, vh).position ELSE drag.pre_drag_position} :
                   \E solver_response \in {solve_for_vertex(Graph, vh, pre_drag_position, cursor_pt, <<>>)} :
                      /\ drag' = [drag EXCEPT !.entity = "vertex", !.handle = vh, !.is_being_dragged = TRUE,
                                              !.pre_drag_position = pre_drag_position,
                                              !.current_drag_position = cursor_pt,
                                              !.ticks = @ + 1]
                      /\ call' = [op |-> "solve_for_vertex",
                                  args |-> [vh |-> vh, fixed_pos |-> pre_drag_position, try_pos |-> cursor_pt, ignore |-> <<>>],
                                  ret |-> solver_response]
                      /\ vertex_map' =
                            CASE solver_response.state = "Free" -> WithPosition(vertex_map, vh, cursor_pt)
                              [] solver_response.state = "Partial" -> WithPosition(vertex_map, vh, solver_response.new_pos[1])
                              [] solver_response.state \in {"Locked", "Abort"} -> vertex_map
                /\ UNCHANGED <<edge_map, constraint_map>>

\* One frame of EdgeDisplay::interact for edge eh.
EdgeInteract(eh, cursor_pt, dragged) ==
    LET mine == drag.is_being_dragged /\ drag.entity = "edge" /\ drag.handle = eh
        begins == ~drag.is_being_dragged /\ dragged /\ is_point_on_edge(Graph, eh, cursor_pt, GrabSize * Scale)
        eh_1 == get_edge(Graph, eh).start_point_vh
        eh_2 == get_edge(Graph, eh).end_point_vh
    IN  /\ Running
        /\ mine \/ begins
        /\ IF mine /\ ~dragged
           THEN /\ drag' = [drag EXCEPT !.is_being_dragged = FALSE]
                /\ UNCHANGED <<vertex_map, edge_map, constraint_map, call>>
           ELSE /\ drag.ticks < MaxTicks
                /\ \E pre_drag_position \in {IF begins THEN cursor_pt ELSE drag.pre_drag_position},
                      pre_drag_start_point \in {IF begins THEN get_end_points(Graph, eh)[1] ELSE drag.pre_drag_start_point},
                      pre_drag_end_point \in {IF begins THEN get_end_points(Graph, eh)[2] ELSE drag.pre_drag_end_point} :
                   \E delta \in {VSub(cursor_pt, pre_drag_position)} :
                   \E v1_try_pos \in {VAdd(pre_drag_start_point, delta)}, v2_try_pos \in {VAdd(pre_drag_end_point, delta)} :
                   \E solver_response \in {solve_for_edge(Graph, eh, pre_drag_position, cursor_pt,
                                                          pre_drag_start_point, v1_try_pos, pre_drag_end_point, v2_try_pos)} :
                      /\ drag' = [drag EXCEPT !.entity = "edge", !.handle = eh, !.is_being_dragged = TRUE,
                                              !.pre_drag_position = pre_drag_position,
                                              !.current_drag_position = cursor_pt,
                                              !.pre_drag_start_point = pre_drag_start_point,
                                              !.pre_drag_end_point = pre_drag_end_point,
                                              !.ticks = @ + 1]
                      /\ call' = [op |-> "solve_for_edge",
                                  args |-> [eh |-> eh, fixed_pos |-> pre_drag_position, try_pos |-> cursor_pt,
                                            v1_fixed_pos |-> pre_drag_start_point, v1_try_pos |-> v1_try_pos,
                                            v2_fixed_pos |-> pre_drag_end_point, v2_try_pos |-> v2_try_pos],
                                  ret |-> solver_response]
                      /\ vertex_map' =
                            CASE solver_response.state = "Free" ->
                                    WithPosition(WithPosition(vertex_map, eh_1, v1_try_pos), eh_2, v2_try_pos)
                              [] solver_response.state = "Partial" ->
                                    WithPosition(WithPosition(vertex_map, eh_1, solver_response.new_pos[1][1]), eh_2, solver_response.new_pos[1][2])
                              [] solver_response.state \in {"Locked", "Abort"} -> vertex_map
                /\ UNCHANGED <<edge_map, constraint_map>>

\* No display has been dragged yet.
BeforeDrags == drag = NoDrag

\* Where the cursor is in a frame: on a vertex of the sketch, or off the row
\* of vertices.
CursorPositions == {Pos(0, 0), Pos(3, 0), Pos(3, -4)}

DragNext ==
    \/ \E eh \in Handles(edge_map) : BeforeDrags /\ AddLengthConstraint(eh)
    \/ \E eh_1, eh_2 \in Handles(edge_map) : BeforeDrags /\ AddAngleConstraint(eh_1, eh_2)
    \/ \E eh_1, eh_2 \in Handles(edge_map) : BeforeDrags /\ AddParallelConstraint(eh_1, eh_2)
    \/ \E vh \in Handles(vertex_map), cursor_pt \in CursorPositions, dragged \in BOOLEAN : VertexInteract(vh, cursor_pt, dragged)
    \/ \E eh \in Handles(edge_map), cursor_pt \in CursorPositions, dragged \in BOOLEAN : EdgeInteract(eh, cursor_pt, dragged)

DragSpec == SolverInit /\ [][DragNext]_vars

(***************************************************************************)
(* Properties.  A position is kept to 1/Scale of a unit, so two lengths    *)
(* or two points are equal "within 1e-3" when they differ by no more than  *)
(* the rounding of a computed position.                                    *)
(***************************************************************************)

Resolution == Scale \div 10

VertexSolved == call.op = "solve_for_vertex"

EdgeSolved == call.op = "solve_for_edge" /\ has_edge(Graph, call.args.eh)

Ignored(ch) == Contains(call.args.ignore, ch)

OtherEndpoint(edge, vh) == IF edge.start_point_vh = vh THEN edge.end_point_vh ELSE edge.start_point_vh

PositionOf(vh) == get_vertex(Graph, vh).position

\* Constraint ch touches vertex vh: vh is an endpoint of its edge (length,
\* parallel) or its pivot or one of its outer vertices (angle).
Touches(ch, vh) ==
    LET c == get_constraint(Graph, ch)
    IN  CASE c.kind = "LENGTH" -> IsEndpoint(get_edge(Graph, c.edge_1_handle), vh)
          [] c.kind = "ANGLE" -> vh \in {c.pivot_vert_handle, c.edge_1_outer_vert_handle, c.edge_2_outer_vert_handle}
          [] c.kind = "PARALLEL" -> \/ IsEndpoint(get_edge(Graph, c.edge_1_handle), vh)
                                    \/ IsEndpoint(get_edge(Graph, c.edge_2_handle), vh)

\* The two arms of angle constraint c, from the pivot to the outer vertices.
Arm1(c) == VSub(PositionOf(c.edge_1_outer_vert_handle), PositionOf(c.pivot_vert_handle))

Arm2(c) == VSub(PositionOf(c.edge_2_outer_vert_handle), PositionOf(c.pivot_vert_handle))

\* The arms are more than 1e-3 away from 0 and from 180 degrees apart.
ArmsApart(c) == Abs(CrossRaw(Arm1(c), Arm2(c))) * EpsInv > Length(Arm1(c)) * Length(Arm2(c))

\* The arms have a bearing and are 0 or 180 degrees apart.
ArmsCollinear(c) == Arm1(c) # <<0, 0>> /\ Arm2(c) # <<0, 0>> /\ CrossRaw(Arm1(c), Arm2(c)) = 0

\* Point p is on the line through q of direction d.
OnLineThrough(p, q, d) == Abs(CrossRaw(VSub(p, q), d)) <= Resolution * Length(d)

EdgeVector(eh) == VSub(PositionOf(get_edge(Graph, eh).end_point_vh), PositionOf(get_edge(Graph, eh).start_point_vh))

\* C1 (length invariance): whenever solve_for_vertex(v, fixed_pos, try_pos,
\* ignore) returns Partial, then for every length-constrained edge at v whose
\* constraint is not ignored, the distance from new_pos to the edge's other
\* endpoint equals the distance from fixed_pos to that endpoint.
C1_LengthInvariance ==
    (VertexSolved /\ call.ret.state = "Partial") =>
        \A ch \in Handles(constraint_map) :
            LET c == get_constraint(Graph, ch)
                edge == get_edge(Graph, c.edge_1_handle)
                other == PositionOf(OtherEndpoint(edge, call.args.vh))
            IN  (c.kind = "LENGTH" /\ ~Ignored(ch) /\ IsEndpoint(edge, call.args.vh))
                => Abs(Distance(call.ret.new_pos[1], other) - Distance(call.args.fixed_pos, other)) <= Resolution

\* A vertex with two length constraints solved Partial on the first circle,
\* off the second one.
C1_SecondCircleDropped ==
    /\ VertexSolved
    /\ call.ret.state = "Partial"
    /\ Len(length_end_constraints(Graph, call.args.vh, call.args.ignore)) = 2
    /\ ~C1_LengthInvariance

\* C2 (angle lock): if a non-ignored angle constraint has pivot P and its
\* arms are not within 1e-3 of 0 or 180 degrees apart, solve_for_vertex(P, ...)
\* returns Locked with no locus and no position, whatever else touches P.
C2_AngleLock ==
    VertexSolved =>
        \A ch \in Handles(constraint_map) :
            LET c == get_constraint(Graph, ch)
            IN  (c.kind = "ANGLE" /\ ~Ignored(ch) /\ c.pivot_vert_handle = call.args.vh /\ ArmsApart(c))
                => call.ret = VertexResponse("Locked", None, None)

\* The pivot of an angle constraint with arms apart was solved, with another
\* constraint touching it, and came back Locked.
C2_PivotLocked ==
    /\ VertexSolved
    /\ call.ret.state = "Locked"
    /\ \E ch, other \in Handles(constraint_map) :
          /\ ch # other
          /\ get_constraint(Graph, ch).kind = "ANGLE"
          /\ ~Ignored(ch)
          /\ get_constraint(Graph, ch).pivot_vert_handle = call.args.vh
          /\ ArmsApart(get_constraint(Graph, ch))
          /\ get_constraint(Graph, other).kind = "LENGTH"
          /\ ~Ignored(other)
          /\ Touches(other, call.args.vh)

\* C3 (collinear pivot stays movable): when the only non-ignored constraint
\* touching P is an angle constraint with pivot P and collinear arms,
\* solve_for_vertex(P, ...) returns Partial with a Line through the pivot
\* along the arms, and new_pos is the point of that line closest to try_pos.
C3_CollinearPivotMovable ==
    VertexSolved =>
        \A ch \in Handles(constraint_map) :
            LET c == get_constraint(Graph, ch)
                alone == \A other \in Handles(constraint_map) : (other # ch /\ ~Ignored(other)) => ~Touches(other, call.args.vh)
            IN  (c.kind = "ANGLE" /\ ~Ignored(ch) /\ c.pivot_vert_handle = call.args.vh /\ ArmsCollinear(c) /\ alone)
                => /\ call.ret.state = "Partial"
                   /\ call.ret.valid_path # None
                   /\ call.ret.valid_path[1].kind = "Line"
                   /\ OnLineThrough(PositionOf(call.args.vh), call.ret.valid_path[1].origin, call.ret.valid_path[1].direction)
                   /\ CrossRaw(call.ret.valid_path[1].direction, Arm1(c)) = 0
                   /\ call.ret.new_pos = Some(closest_point(call.ret.valid_path[1], call.args.try_pos))

\* The pivot of a single angle constraint with collinear arms came back Locked.
C3_CollinearPivotLocked ==
    /\ VertexSolved
    /\ call.ret.state = "Locked"
    /\ Len(constraint_map) = 1
    /\ call.args.ignore = <<>>
    /\ get_constraint(Graph, 0).kind = "ANGLE"
    /\ get_constraint(Graph, 0).pivot_vert_handle = call.args.vh
    /\ ArmsCollinear(get_constraint(Graph, 0))

\* C4 (parallel preservation): whenever solve_for_vertex(v, ...) returns a
\* position, then for every non-ignored parallel constraint {E1, E2} with v
\* an endpoint of E1 the position is on the line through E1's other endpoint
\* along E2's current direction.
C4_ParallelPreservation ==
    (VertexSolved /\ call.ret.new_pos # None) =>
        \A ch \in Handles(constraint_map) :
            LET c == get_constraint(Graph, ch)
                along(e1, e2) == IsEndpoint(get_edge(Graph, e1), call.args.vh) =>
                    OnLineThrough(call.ret.new_pos[1], PositionOf(OtherEndpoint(get_edge(Graph, e1), call.args.vh)), EdgeVector(e2))
            IN  (c.kind = "PARALLEL" /\ ~Ignored(ch))
                => along(c.edge_1_handle, c.edge_2_handle) /\ along(c.edge_2_handle, c.edge_1_handle)

\* An endpoint of an edge whose only constraint is a parallel constraint
\* with an edge of another direction was given a position off the line of
\* the partner's direction.
C4_OwnDirectionKept ==
    /\ VertexSolved
    /\ call.ret.state = "Partial"
    /\ Len(constraint_map) = 1
    /\ get_constraint(Graph, 0).kind = "PARALLEL"
    /\ CrossRaw(EdgeVector(get_constraint(Graph, 0).edge_1_handle), EdgeVector(get_constraint(Graph, 0).edge_2_handle)) # 0
    /\ ~C4_ParallelPreservation

\* C5 (free invariance): a vertex touched by no constraint solves Free with
\* new_pos = try_pos; an edge neither of whose endpoints is touched by a
\* constraint solves Free with new_pos = (v1_try_pos, v2_try_pos).
C5_FreeInvariance ==
    /\ (VertexSolved /\ \A ch \in Handles(constraint_map) : ~Touches(ch, call.args.vh))
        => call.ret.state = "Free" /\ call.ret.new_pos = Some(call.args.try_pos)
    /\ (EdgeSolved /\ \A ch \in Handles(constraint_map) :
                         /\ ~Touches(ch, get_edge(Graph, call.args.eh).start_point_vh)
                         /\ ~Touches(ch, get_edge(Graph, call.args.eh).end_point_vh))
        => call.ret.state = "Free" /\ call.ret.new_pos = Some(<<call.args.v1_try_pos, call.args.v2_try_pos>>)

\* An edge of a graph without constraints solved Free and carries no position.
C5_EdgeFreeWithoutPosition ==
    /\ EdgeSolved
    /\ constraint_map = <<>>
    /\ call.ret.state = "Free"
    /\ call.ret.new_pos = None

\* The endpoints of the solved edge and their solves as solve_for_edge runs them.
SolvedEdge == get_edge(Graph, call.args.eh)

Endpoint1 == EndpointSolve(Graph, call.args.eh, 1, call.args.v1_fixed_pos, call.args.v1_try_pos)

Endpoint2 == EndpointSolve(Graph, call.args.eh, 2, call.args.v2_fixed_pos, call.args.v2_try_pos)

\* Constraint ch is anchored on edge eh: its length constraint, or a parallel
\* constraint in which it takes part.
AnchoredOn(ch, eh) ==
    LET c == get_constraint(Graph, ch)
    IN  \/ c.kind = "LENGTH" /\ c.edge_1_handle = eh
        \/ c.kind = "PARALLEL" /\ (c.edge_1_handle = eh \/ c.edge_2_handle = eh)

\* C6 (edge self-exclusion): if the only constraints touching the endpoints
\* of e are e's own length and parallel constraints, solve_for_edge(e, ...)
\* returns Free.
C6_EdgeSelfExclusion ==
    (EdgeSolved /\ \A ch \in Handles(constraint_map) :
                      (Touches(ch, SolvedEdge.start_point_vh) \/ Touches(ch, SolvedEdge.end_point_vh))
                      => AnchoredOn(ch, call.args.eh))
    => call.ret.state = "Free"

\* An edge whose only constraint is its own length constraint did not solve Free.
C6_OwnLengthCounted ==
    /\ EdgeSolved
    /\ constraint_map = <<LengthConstraint(call.args.eh)>>
    /\ call.ret.state # "Free"

\* C7 (combination of the endpoint states): if either endpoint solve is
\* Locked, solve_for_edge returns Locked with no loci and no positions (also
\* when the other one is Free); if both are Free it returns Free.
C7_EndpointCombination ==
    EdgeSolved =>
        /\ (Endpoint1.state = "Locked" \/ Endpoint2.state = "Locked") => call.ret = EdgeResponseLocked
        /\ (Endpoint1.state = "Free" /\ Endpoint2.state = "Free") => call.ret.state = "Free"

\* The first endpoint solved Locked, the solve of the second one aborted,
\* and so did the call.
C7_LockedThenAbort ==
    /\ EdgeSolved
    /\ Endpoint1.state = "Locked"
    /\ Endpoint2.state = "Abort"
    /\ call.ret.state = "Abort"

\* The line of the dragged edge has a direction.
HasBearing(line) == line.direction # <<0, 0>>

\* The parameter of the point where the line meets the line of a ray, along
\* the ray, as a fraction num / den (den = 0: parallel).
RayParamNum(line, ray) == CrossRaw(VSub(line.origin, ray.origin), line.direction)

RayParamDen(line, ray) == CrossRaw(ray.direction, line.direction)

\* The line and the locus surely have a common point.
SurelyMeets(line, path) ==
    CASE path.kind = "Circle" ->
            Abs(CrossRaw(VSub(path.origin, line.origin), line.direction)) <= (path.radius - Resolution) * Length(line.direction)
      [] path.kind = "Line" -> RayParamDen(line, path) # 0
      [] path.kind = "Ray" ->
            \/ RayParamNum(line, path) > 0 /\ RayParamDen(line, path) > 0
            \/ RayParamNum(line, path) < 0 /\ RayParamDen(line, path) < 0

\* The line and the locus surely have no common point.
SurelyMisses(line, path) ==
    CASE path.kind = "Circle" ->
            Abs(CrossRaw(VSub(path.origin, line.origin), line.direction)) >= (path.radius + Resolution) * Length(line.direction)
      [] path.kind = "Line" -> RayParamDen(line, path) = 0 /\ ~OnLineThrough(path.origin, line.origin, line.direction)
      [] path.kind = "Ray" ->
            \/ RayParamDen(line, path) = 0 /\ ~OnLineThrough(path.origin, line.origin, line.direction)
            \/ RayParamNum(line, path) > 0 /\ RayParamDen(line, path) < 0
            \/ RayParamNum(line, path) < 0 /\ RayParamDen(line, path) > 0

\* Point p is on the locus.
LiesOn(p, path) ==
    CASE path.kind = "Circle" -> Abs(Distance(p, path.origin) - path.radius) <= Resolution
      [] path.kind = "Line" -> OnLineThrough(p, path.origin, path.direction)
      [] path.kind = "Ray" -> /\ OnLineThrough(p, path.origin, path.direction)
                              /\ DotRaw(VSub(p, path.origin), path.direction) >= -(Resolution * Length(path.direction))

\* C8 (both endpoints Partial): the edge line through try_pos along the
\* current edge direction is intersected with each endpoint's locus; if one
\* of the intersections does not exist the result is Locked, otherwise it is
\* Partial, the returned loci are the two loci in order, and the two
\* positions are points of the edge line on locus 1 and on locus 2.
C8_BothPartial ==
    (EdgeSolved /\ Endpoint1.state = "Partial" /\ Endpoint2.state = "Partial") =>
        LET line == Line(call.args.try_pos, Normalized(EdgeVector(call.args.eh)))
            locus_1 == Endpoint1.valid_path[1]
            locus_2 == Endpoint2.valid_path[1]
        IN  HasBearing(line) =>
                /\ (SurelyMisses(line, locus_1) \/ SurelyMisses(line, locus_2)) => call.ret = EdgeResponseLocked
                /\ (SurelyMeets(line, locus_1) /\ SurelyMeets(line, locus_2)) =>
                      /\ call.ret.state = "Partial"
                      /\ call.ret.valid_paths = Some(<<locus_1, locus_2>>)
                      /\ call.ret.new_pos # None
                      /\ OnLineThrough(call.ret.new_pos[1][1], line.origin, line.direction)
                      /\ LiesOn(call.ret.new_pos[1][1], locus_1)
                      /\ OnLineThrough(call.ret.new_pos[1][2], line.origin, line.direction)
                      /\ LiesOn(call.ret.new_pos[1][2], locus_2)

\* Both endpoints solved Partial under constraints of other edges, the edge
\* line crosses both loci, and the edge came back Locked.
C8_CrossingLineLocked ==
    /\ EdgeSolved
    /\ Endpoint1.state = "Partial"
    /\ Endpoint2.state = "Partial"
    /\ HasBearing(EdgeLine(Graph, call.args.eh, call.args.try_pos))
    /\ SurelyMeets(EdgeLine(Graph, call.args.eh, call.args.try_pos), Endpoint1.valid_path[1])
    /\ SurelyMeets(EdgeLine(Graph, call.args.eh, call.args.try_pos), Endpoint2.valid_path[1])
    /\ \A ch \in Handles(constraint_map) : ~AnchoredOn(ch, call.args.eh)
    /\ call.ret.state = "Locked"

ExactlyOneFree == (Endpoint1.state = "Free") # (Endpoint2.state = "Free")

\* C9 (rigid translation): in every Partial response of solve_for_edge where
\* exactly one endpoint solved Free, both endpoints move by the same delta:
\* new_pos[0] - v1_fixed_pos = new_pos[1] - v2_fixed_pos.
C9_RigidTranslation ==
    (EdgeSolved /\ call.ret.state = "Partial" /\ ExactlyOneFree) =>
        VSub(call.ret.new_pos[1][1], call.args.v1_fixed_pos) = VSub(call.ret.new_pos[1][2], call.args.v2_fixed_pos)

\* An edge with exactly one Free endpoint solved Partial and both endpoints
\* moved, off their fixed positions, to points of the edge line.
C9_FreeEndpointFollows ==
    /\ EdgeSolved
    /\ call.ret.state = "Partial"
    /\ ExactlyOneFree
    /\ call.ret.new_pos[1][1] # call.args.v1_fixed_pos
    /\ OnLineThrough(call.ret.new_pos[1][1], call.args.try_pos, EdgeVector(call.args.eh))
    /\ OnLineThrough(call.ret.new_pos[1][2], call.args.try_pos, EdgeVector(call.args.eh))
    /\ EdgeVector(call.args.eh) # <<0, 0>>

\* add_angle_constraint was called with two existing non-degenerate edges
\* that join the same two vertices.
SamePairCall ==
    /\ call.op = "add_angle_constraint"
    /\ has_edge(Graph, call.args[1])
    /\ has_edge(Graph, call.args[2])
    /\ LET edge_1 == get_edge(Graph, call.args[1])
           edge_2 == get_edge(Graph, call.args[2])
       IN  /\ edge_1.start_point_vh # edge_1.end_point_vh
           /\ edge_2.start_point_vh # edge_2.end_point_vh
           /\ {edge_1.start_point_vh, edge_1.end_point_vh} = {edge_2.start_point_vh, edge_2.end_point_vh}

\* C10 (full overlap): add_angle_constraint(e1, e2) on two existing
\* non-degenerate edges that share both endpoint handles (in either
\* orientation, e1 = e2 included) fails with FullOverlap.
C10_FullOverlap == SamePairCall => call.ret.tag = "FullOverlap"

\* Such a call answered NoSharedVertex, for two different edges and for
\* one edge given twice.
C10_SamePairNoSharedVertex == SamePairCall /\ call.args[1] # call.args[2] /\ call.ret.tag = "NoSharedVertex"

\* add_angle_constraint was called with two existing non-degenerate edges.
AngleCall ==
    /\ call.op = "add_angle_constraint"
    /\ has_edge(Graph, call.args[1])
    /\ has_edge(Graph, call.args[2])
    /\ get_edge(Graph, call.args[1]).start_point_vh # get_edge(Graph, call.args[1]).end_point_vh
    /\ get_edge(Graph, call.args[2]).start_point_vh # get_edge(Graph, call.args[2]).end_point_vh

Ends(eh) == {get_edge(Graph, eh).start_point_vh, get_edge(Graph, eh).end_point_vh}

SharedEnds == Ends(call.args[1]) \cap Ends(call.args[2])

\* C11 (one shared endpoint): add_angle_constraint(e1, e2) on two existing
\* non-degenerate edges with exactly one endpoint handle in common succeeds,
\* and the stored Angle constraint has the shared handle for pivot, the other
\* endpoint of e1 for edge1_outer and the other endpoint of e2 for edge2_outer.
C11_SharedPivot ==
    (AngleCall /\ Cardinality(SharedEnds) = 1) =>
        /\ call.ret.tag = "Ok"
        /\ call.ret.value \in Handles(constraint_map)
        /\ LET c == get_constraint(Graph, call.ret.value)
           IN  /\ c.kind = "ANGLE"
               /\ c.edge_1_handle = call.args[1]
               /\ c.edge_2_handle = call.args[2]
               /\ {c.pivot_vert_handle} = SharedEnds
               /\ {c.edge_1_outer_vert_handle} = Ends(call.args[1]) \ SharedEnds
               /\ {c.edge_2_outer_vert_handle} = Ends(call.args[2]) \ SharedEnds

\* The way (s1, s2) the shared handle sits: s1 tells whether it is the start
\* of e1, s2 whether it is the start of e2.
SharedSits(s1, s2) ==
    /\ AngleCall
    /\ Cardinality(SharedEnds) = 1
    /\ (get_edge(Graph, call.args[1]).start_point_vh \in SharedEnds) = s1
    /\ (get_edge(Graph, call.args[2]).start_point_vh \in SharedEnds) = s2

\* An angle constraint was stored for two edges whose shared handle is the
\* end of the first and the start of the second.
C11_EndStartStored == SharedSits(FALSE, TRUE) /\ call.ret.tag = "Ok"

\* C12 (no shared endpoint): add_angle_constraint(e1, e2) on two existing
\* non-degenerate edges with no endpoint handle in common fails with
\* NoSharedVertex.
C12_NoSharedVertex == (AngleCall /\ SharedEnds = {}) => call.ret.tag = "NoSharedVertex"

\* Such a call was made on two edges over four different vertices and
\* answered NoSharedVertex.
C12_DisjointRejected ==
    /\ AngleCall
    /\ Cardinality(Ends(call.args[1]) \cup Ends(call.args[2])) = 4
    /\ call.ret.tag = "NoSharedVertex"

\* Edge eh is stored with its start and its end on the same vertex handle.
IsLoop(eh) == get_edge(Graph, eh).start_point_vh = get_edge(Graph, eh).end_point_vh

ConstraintCall == call.op \in {"add_length_constraint", "add_angle_constraint", "add_parallel_constraint"}

\* The edge handles of the last call (a constraint call).
CallEdges == {call.args[i] : i \in 1 .. Len(call.args)}

\* C13 (non-degeneracy): no stored constraint of any kind references an edge
\* whose start and end vertex handles are equal; a call that tries to
\* constrain such an edge is rejected, with DegenerateEdge when it is
\* add_angle_constraint.
C13_NonDegenerate ==
    /\ \A ch \in Handles(constraint_map) :
          ~IsLoop(get_constraint(Graph, ch).edge_1_handle) /\ ~IsLoop(get_constraint(Graph, ch).edge_2_handle)
    /\ (ConstraintCall /\ \A eh \in CallEdges : has_edge(Graph, eh)) =>
          ((\E eh \in CallEdges : IsLoop(eh)) =>
              /\ call.ret.tag # "Ok"
              /\ call.op = "add_angle_constraint" => call.ret.tag = "DegenerateEdge")

\* add_length_constraint on an edge from a vertex to itself answered Ok and
\* the constraint is stored.
C13_LoopEdgeConstrained ==
    /\ call.op = "add_length_constraint"
    /\ call.ret.tag = "Ok"
    /\ IsLoop(call.args[1])
    /\ get_constraint(Graph, call.ret.value) = LengthConstraint(call.args[1])

\* C14 (absent edge): add_length_constraint, add_angle_constraint and
\* add_parallel_constraint called with an edge handle that is not in the
\* edge map fail with EdgeNotFound, whatever the other handle is.
C14_EdgeNotFound ==
    (ConstraintCall /\ \E eh \in CallEdges : ~has_edge(Graph, eh)) => call.ret.tag = "EdgeNotFound"

\* Each of the three calls, given an absent edge handle, answers
\* ConstraintNotAdded; here add_angle_constraint with an edge from a vertex
\* to itself for its other handle.
C14_AbsentEdgeNotAdded ==
    /\ call.op = "add_angle_constraint"
    /\ has_edge(Graph, call.args[1])
    /\ IsLoop(call.args[1])
    /\ ~has_edge(Graph, call.args[2])
    /\ call.ret.tag = "ConstraintNotAdded"

ConstraintOps == {"add_length_constraint", "add_angle_constraint", "add_parallel_constraint"}

\* C15 (no partial insert): a step in which add_length_constraint,
\* add_angle_constraint or add_parallel_constraint returns an error leaves
\* the constraint map, the edge map (with every edge's owned constraints)
\* and the vertex map as they were, and with them the handle the next
\* successful add returns.
C15_NoPartialInsert ==
    [][(call'.op \in ConstraintOps /\ call'.ret.tag # "Ok") =>
          /\ UNCHANGED <<vertex_map, edge_map, constraint_map>>
          /\ get_next_id(constraint_map') = get_next_id(constraint_map)]_vars

\* add_angle_constraint was rejected for edges that share no vertex, on a
\* graph that already holds a parallel constraint owned by one of them.
C15_RejectedOnOwningEdge ==
    /\ call.op = "add_angle_constraint"
    /\ call.ret.tag = "NoSharedVertex"
    /\ Len(constraint_map) = 1
    /\ get_edge(Graph, call.args[1]).constraints = <<0>>

\* The map an add call writes to.
MapOf(op, vm, em, cm) ==
    CASE op = "add_vertex" -> vm
      [] op = "add_edge" -> em
      [] op \in ConstraintOps -> cm

AddOps == {"add_vertex", "add_edge"} \cup ConstraintOps

\* C16 (handle uniqueness): in every step of an add call, a successful call
\* returns 0 on an empty map and the largest handle of its map + 1
\* otherwise, the map gains that handle and keeps every entry it had; a
\* failing call, and a call on another map, leave the handles of a map as
\* they were.  So within a map the returned handles increase by one from 0
\* and none is returned twice.
C16_HandleUniqueness ==
    [][call'.op \in AddOps =>
          LET before == MapOf(call'.op, vertex_map, edge_map, constraint_map)
              after == MapOf(call'.op, vertex_map', edge_map', constraint_map')
          IN  /\ call'.ret.tag = "Ok" =>
                    /\ call'.ret.value = Len(before)
                    /\ call'.ret.value \notin Handles(before)
                    /\ Handles(after) = Handles(before) \cup {call'.ret.value}
              /\ call'.ret.tag # "Ok" => Handles(after) = Handles(before)
              /\ call'.op # "add_vertex" => Handles(vertex_map') = Handles(vertex_map)
              /\ call'.op # "add_edge" => Handles(edge_map') = Handles(edge_map)
              /\ call'.op \notin ConstraintOps => Handles(constraint_map') = Handles(constraint_map)]_vars

\* The second constraint was added after a failed call and got handle 1.
C16_SecondHandle ==
    /\ call.op \in ConstraintOps
    /\ call.ret.tag = "Ok"
    /\ call.ret.value = 1
    /\ Len(constraint_map) = 2
    /\ Len(edge_map) = 2
    /\ Len(vertex_map) = 3

\* C17 (absent vertex): a step of add_edge(v1, v2) with an absent vertex
\* handle returns VertexNotFound with the absent handle, v1 when v1 is
\* absent and v2 otherwise, and leaves the edge map and every vertex's
\* incident-edge list as they were.
C17_VertexNotFound ==
    [][(call'.op = "add_edge" /\ (~has_vertex(Graph, call'.args[1]) \/ ~has_vertex(Graph, call'.args[2]))) =>
          /\ call'.ret = Err("VertexNotFound", IF ~has_vertex(Graph, call'.args[1]) THEN call'.args[1] ELSE call'.args[2])
          /\ UNCHANGED <<vertex_map, edge_map>>]_vars

\* add_edge was given two different absent handles, on a graph with an edge,
\* and named the first.
C17_BothAbsent ==
    /\ call.op = "add_edge"
    /\ ~has_vertex(Graph, call.args[1])
    /\ ~has_vertex(Graph, call.args[2])
    /\ call.args[1] # call.args[2]
    /\ call.ret = Err("VertexNotFound", call.args[1])
    /\ Len(edge_map) = 1

\* C18 (referential integrity): in every state every stored edge's start
\* and end handles are in the vertex map, every stored constraint's edge
\* handles are in the edge map, and every stored ANGLE constraint has a pivot
\* that is an endpoint of both its edges, outer vertices that are the other
\* endpoints of edge 1 and of edge 2, and three distinct vertex handles.
C18_ReferentialIntegrity ==
    /\ \A eh \in Handles(edge_map) :
          /\ has_vertex(Graph, get_edge(Graph, eh).start_point_vh)
          /\ has_vertex(Graph, get_edge(Graph, eh).end_point_vh)
    /\ \A ch \in Handles(constraint_map) :
          LET c == get_constraint(Graph, ch)
          IN  /\ has_edge(Graph, c.edge_1_handle)
              /\ has_edge(Graph, c.edge_2_handle)
              /\ c.kind = "ANGLE" =>
                    LET e1 == get_edge(Graph, c.edge_1_handle)
                        e2 == get_edge(Graph, c.edge_2_handle)
                    IN  /\ <<e1.start_point_vh, e1.end_point_vh>> \in
                              {<<c.pivot_vert_handle, c.edge_1_outer_vert_handle>>,
                               <<c.edge_1_outer_vert_handle, c.pivot_vert_handle>>}
                        /\ <<e2.start_point_vh, e2.end_point_vh>> \in
                              {<<c.pivot_vert_handle, c.edge_2_outer_vert_handle>>,
                               <<c.edge_2_outer_vert_handle, c.pivot_vert_handle>>}
                        /\ Cardinality({c.pivot_vert_handle, c.edge_1_outer_vert_handle, c.edge_2_outer_vert_handle}) = 3

\* Two ANGLE constraints are stored on the same two edges, one for each
\* order of the edges, the second by the call just made.
C18_TwoAnglesStored ==
    /\ Len(constraint_map) = 2
    /\ get_constraint(Graph, 0).kind = "ANGLE"
    /\ get_constraint(Graph, 1).kind = "ANGLE"
    /\ get_constraint(Graph, 0).edge_1_handle = get_constraint(Graph, 1).edge_2_handle
    /\ get_constraint(Graph, 0).edge_1_handle # get_constraint(Graph, 1).edge_1_handle
    /\ call.op = "add_angle_constraint"
    /\ call.ret.tag = "Ok"

Occurrences(s, x) == Cardinality({i \in 1 .. Len(s) : s[i] = x})

\* A handle is in an edge's constraints exactly when it is a stored PARALLEL
\* constraint on that edge.
OwnedIffParallel ==
    \A eh \in Handles(edge_map) : \A ch \in 0 .. MaxConstraints :
        Contains(get_edge(Graph, eh).constraints, ch) <=>
            /\ ch \in Handles(constraint_map)
            /\ get_constraint(Graph, ch).kind = "PARALLEL"
            /\ eh \in {get_constraint(Graph, ch).edge_1_handle, get_constraint(Graph, ch).edge_2_handle}

\* C19 (owned constraints): in every state a constraint handle is in an
\* edge's constraints exactly when it is a stored PARALLEL constraint with
\* that edge as edge 1 or edge 2, and no handle occurs in an edge's
\* constraints more than once.
C19_OwnedConstraints ==
    /\ OwnedIffParallel
    /\ \A eh \in Handles(edge_map) : \A ch \in Handles(constraint_map) :
          Occurrences(get_edge(Graph, eh).constraints, ch) <= 1

\* add_parallel_constraint(e, e) succeeded and its handle is twice in e's
\* constraints.
C19_HandleOwnedTwice ==
    /\ call.op = "add_parallel_constraint"
    /\ call.args[1] = call.args[2]
    /\ call.ret.tag = "Ok"
    /\ Occurrences(get_edge(Graph, call.args[1]).constraints, call.ret.value) = 2

SolverStates == {"Free", "Partial", "Locked"}

\* C20 (stale handles): solve_for_vertex with a vertex handle absent from
\* the vertex map and solve_for_edge with an edge handle absent from the
\* edge map report a not-found failure: they answer neither Free, Partial
\* nor Locked, and they do not abort.
C20_StaleHandles ==
    /\ (call.op = "solve_for_vertex" /\ ~has_vertex(Graph, call.args.vh)) =>
          call.ret.state \notin SolverStates \cup {"Abort"}
    /\ (call.op = "solve_for_edge" /\ ~has_edge(Graph, call.args.eh)) =>
          call.ret.state \notin SolverStates \cup {"Abort"}

\* solve_for_vertex answered Free with the tentative position for an absent
\* vertex handle, on a graph that holds a constraint.
C20_AbsentVertexFree ==
    /\ call.op = "solve_for_vertex"
    /\ ~has_vertex(Graph, call.args.vh)
    /\ Len(constraint_map) >= 1
    /\ call.ret.state = "Free"
    /\ call.ret.new_pos = Some(call.args.try_pos)

\* solve_for_edge aborted on an absent edge handle.
AbsentEdgeAborts ==
    /\ call.op = "solve_for_edge"
    /\ ~has_edge(Graph, call.args.eh)
    /\ call.ret.state = "Abort"

\* A solve of a vertex that the vertex map has.
PresentVertexSolved == VertexSolved /\ has_vertex(Graph, call.args.vh)

\* A locus of the solve needs the bearing between two vertices that are
\* less than 0.01 apart.
NeedsDegenerateBearing(vh, fixed_pos, ignore) ==
    LET built == constraint_paths(Graph, vh, fixed_pos, ignore)
    IN  /\ ~HardLocked(Graph, vh, ignore)
        /\ \E i \in 1 .. Len(built) : built[i].panic

\* C21 (no abort on a degenerate direction): solve_for_vertex on a vertex of
\* the graph and solve_for_edge on an edge of the graph never abort, and a
\* solve_for_vertex one of whose loci needs the bearing between two vertices
\* less than 0.01 apart returns an error: neither Free, Partial nor Locked.
C21_NoAbort ==
    /\ (PresentVertexSolved \/ EdgeSolved) => call.ret.state # "Abort"
    /\ (PresentVertexSolved /\ NeedsDegenerateBearing(call.args.vh, call.args.fixed_pos, call.args.ignore))
          => call.ret.state \notin SolverStates \cup {"Abort"}

\* solve_for_vertex aborted on a vertex whose only constraint is a parallel
\* constraint on an edge between two vertices at the same position.
C21_CoincidentEndsAbort ==
    /\ PresentVertexSolved
    /\ Len(constraint_map) = 1
    /\ get_constraint(Graph, 0).kind = "PARALLEL"
    /\ call.args.ignore = <<>>
    /\ NeedsDegenerateBearing(call.args.vh, call.args.fixed_pos, call.args.ignore)
    /\ call.ret.state = "Abort"

\* Unit vectors with exact fixed-point components.
UnitDirections ==
    {<<x * sx, y * sy>> : <<x, y>> \in {<<Scale, 0>>, <<0, Scale>>, <<(3 * Scale) \div 5, (4 * Scale) \div 5>>, <<(4 * Scale) \div 5, (3 * Scale) \div 5>>},
                          sx \in {-1, 1}, sy \in {-1, 1}}

\* Points of a locus to compare the resolved position with: sixteen points
\* of a circle, the points of a line or a ray at whole distances up to
\* twelve units from its origin.
SamplePoints(path) ==
    CASE path.kind = "Circle" -> {VAdd(path.origin, VScaled(d, path.radius)) : d \in UnitDirections}
      [] path.kind = "Line" -> {VAdd(path.origin, VTimes(path.direction, k)) : k \in -12 .. 12}
      [] path.kind = "Ray" -> {VAdd(path.origin, VTimes(path.direction, k)) : k \in 0 .. 12}

\* p is a point of the locus and no sample point of the locus is closer to
\* the target than p.
ClosestOn(path, p, target) ==
    /\ LiesOn(p, path)
    /\ \A q \in SamplePoints(path) : Distance(p, target) <= Distance(q, target) + Resolution

\* C22 (response shape of solve_for_vertex): a Partial response carries a
\* locus and a position, and the position is the point of that locus closest
\* to try_pos; a Locked response carries neither a locus nor a position.
C22_ResponseShape ==
    VertexSolved =>
        /\ call.ret.state = "Partial" =>
              /\ Len(call.ret.valid_path) = 1
              /\ Len(call.ret.new_pos) = 1
              /\ ClosestOn(call.ret.valid_path[1], call.ret.new_pos[1], call.args.try_pos)
        /\ call.ret.state = "Locked" =>
              /\ call.ret.valid_path = None
              /\ call.ret.new_pos = None

\* A Partial response on a ray whose resolved position is not try_pos, with
\* a second constraint on the vertex.
C22_PartialOnRay ==
    /\ VertexSolved
    /\ call.ret.state = "Partial"
    /\ call.ret.valid_path[1].kind = "Ray"
    /\ call.ret.new_pos # Some(call.args.try_pos)
    /\ Len(angle_end_constraints(Graph, call.args.vh, call.args.ignore)) = 1
    /\ Len(parallel_end_constraints(Graph, call.args.vh, call.args.ignore)) = 1

\* The only constraint of the solve is one length constraint.
OnlyOneLength ==
    /\ PresentVertexSolved
    /\ Len(length_end_constraints(Graph, call.args.vh, call.args.ignore)) = 1
    /\ Len(angle_end_constraints(Graph, call.args.vh, call.args.ignore)) = 0
    /\ Len(angle_center_constraints(Graph, call.args.vh, call.args.ignore)) = 0
    /\ Len(parallel_end_constraints(Graph, call.args.vh, call.args.ignore)) = 0

\* The other endpoint of the edge of that length constraint.
LengthCentre ==
    LET ch == length_end_constraints(Graph, call.args.vh, call.args.ignore)[1]
    IN  PositionOf(OtherEndpoint(get_edge(Graph, get_constraint(Graph, ch).edge_1_handle), call.args.vh))

\* C24 (single length constraint): when the only non-ignored constraint on
\* vertex v is one length constraint on an edge (v, w), solve_for_vertex
\* returns Partial for every try_pos, the locus is the circle centred at w's
\* current position with radius distance(fixed_pos, w), and new_pos is the
\* point of that circle closest to try_pos, on try_pos's side of the centre.
C24_SingleLength ==
    OnlyOneLength =>
        LET circle == Circle(LengthCentre, Distance(call.args.fixed_pos, LengthCentre))
        IN  /\ call.ret.state = "Partial"
            /\ call.ret.valid_path = Some(circle)
            /\ Len(call.ret.new_pos) = 1
            /\ ClosestOn(circle, call.ret.new_pos[1], call.args.try_pos)
            /\ DotRaw(VSub(call.ret.new_pos[1], LengthCentre), VSub(call.args.try_pos, LengthCentre)) >= 0

\* A vertex with one length constraint was solved with a fixed position
\* that is not where the vertex is, and try_pos was pulled onto the circle.
C24_PulledOntoCircle ==
    /\ OnlyOneLength
    /\ call.args.fixed_pos # PositionOf(call.args.vh)
    /\ Distance(call.args.fixed_pos, LengthCentre) # Distance(PositionOf(call.args.vh), LengthCentre)
    /\ call.ret.state = "Partial"
    /\ call.ret.new_pos # Some(call.args.try_pos)
    /\ call.args.try_pos # LengthCentre

\* The loci solve_for_vertex builds for the call, in order.
BuiltPaths ==
    LET built == constraint_paths(Graph, call.args.vh, call.args.fixed_pos, call.args.ignore)
    IN  [i \in 1 .. Len(built) |-> built[i].path]

\* The vertex of the solve is the outer vertex of two angle constraints with
\* the same pivot, some way from that pivot, and has no other constraint.
TwoAnglesOnePivot ==
    LET aec == angle_end_constraints(Graph, call.args.vh, call.args.ignore)
    IN  /\ PresentVertexSolved
        /\ Len(aec) = 2
        /\ get_constraint(Graph, aec[1]).pivot_vert_handle = get_constraint(Graph, aec[2]).pivot_vert_handle
        /\ Len(length_end_constraints(Graph, call.args.vh, call.args.ignore)) = 0
        /\ Len(angle_center_constraints(Graph, call.args.vh, call.args.ignore)) = 0
        /\ Len(parallel_end_constraints(Graph, call.args.vh, call.args.ignore)) = 0
        /\ ~NeedsDegenerateBearing(call.args.vh, call.args.fixed_pos, call.args.ignore)

\* C25 (coincident rays survive the fold): the two rays built for a vertex
\* that is the outer vertex of two angle constraints with the same pivot
\* have the same origin and the same direction; the pairwise reduction of
\* the running ray with the second one keeps the running ray, and the solve
\* is Partial on that ray, not Locked.
C25_CoincidentRays ==
    TwoAnglesOnePivot =>
        /\ BuiltPaths[1].kind = "Ray"
        /\ BuiltPaths[2] = BuiltPaths[1]
        /\ PairReduce(BuiltPaths[1], BuiltPaths[2]) = Some(BuiltPaths[1])
        /\ intersect_paths(BuiltPaths) = Some(BuiltPaths[1])
        /\ call.ret.state = "Partial"
        /\ call.ret.valid_path = Some(BuiltPaths[1])

\* The vertex has two angle constraints with one pivot, and try_pos, behind
\* the origin of their ray, was resolved to another point.
C25_TwoAnglesPartial ==
    /\ TwoAnglesOnePivot
    /\ call.ret.state = "Partial"
    /\ call.ret.new_pos # Some(call.args.try_pos)
    /\ DotRaw(VSub(call.args.try_pos, BuiltPaths[1].origin), BuiltPaths[1].direction) < 0

\* The solve has a length constraint together with an angle-end or a
\* parallel constraint, and the pre-check does not end it.
CircleMixed ==
    /\ PresentVertexSolved
    /\ Len(length_end_constraints(Graph, call.args.vh, call.args.ignore)) >= 1
    /\ \/ Len(angle_end_constraints(Graph, call.args.vh, call.args.ignore)) >= 1
       \/ Len(parallel_end_constraints(Graph, call.args.vh, call.args.ignore)) >= 1
    /\ ~HardLocked(Graph, call.args.vh, call.args.ignore)

\* C26 (a circle mixed with a line or a ray always locks): a solve whose
\* non-ignored constraints include a length constraint and an angle-end or
\* parallel constraint, and which the pre-check does not end, returns Locked
\* for every try_pos; and from a running locus of None the fold returns
\* None whatever loci follow.
C26_CircleMixLocks ==
    /\ CircleMixed => call.ret.state = "Locked"
    /\ VertexSolved => \A i \in 1 .. Len(BuiltPaths) : FoldPaths(None, BuiltPaths, i) = None

\* A solve with a length and a parallel constraint aborted.
C26_CircleMixAborts ==
    /\ CircleMixed
    /\ Len(parallel_end_constraints(Graph, call.args.vh, call.args.ignore)) = 1
    /\ call.ret.state = "Abort"

\* A solve with a circle and a ray that cross was Locked.
CrossingMixLocked ==
    /\ CircleMixed
    /\ Len(BuiltPaths) = 2
    /\ BuiltPaths[2].kind = "Ray"
    /\ Len(ray_circle_intersection(BuiltPaths[2], BuiltPaths[1])) >= 1
    /\ call.ret.state = "Locked"

\* The only constraint of the solve is one angle constraint of which the
\* vertex is an outer vertex, some way from the pivot.
OnlyOneAngleEnd ==
    /\ PresentVertexSolved
    /\ Len(angle_end_constraints(Graph, call.args.vh, call.args.ignore)) = 1
    /\ Len(length_end_constraints(Graph, call.args.vh, call.args.ignore)) = 0
    /\ Len(angle_center_constraints(Graph, call.args.vh, call.args.ignore)) = 0
    /\ Len(parallel_end_constraints(Graph, call.args.vh, call.args.ignore)) = 0
    /\ ~NeedsDegenerateBearing(call.args.vh, call.args.fixed_pos, call.args.ignore)

\* The position of the pivot of that angle constraint.
PivotPosition ==
    LET ch == angle_end_constraints(Graph, call.args.vh, call.args.ignore)[1]
    IN  PositionOf(get_constraint(Graph, ch).pivot_vert_handle)

\* The unit vector from the pivot to the vertex.
PivotBearing == Normalized(VSub(PositionOf(call.args.vh), PivotPosition))

\* try_pos is a point of the half-line that starts at the pivot and passes
\* through the vertex.
TryOnHalfLine ==
    /\ OnLineThrough(call.args.try_pos, PivotPosition, PivotBearing)
    /\ DotRaw(VSub(call.args.try_pos, PivotPosition), PivotBearing) >= 0

\* C27 (the angle-end locus starts at the pivot): for a vertex that is an
\* outer vertex of one angle constraint and has no other constraint, the
\* surviving locus is the ray whose origin is the pivot's current position
\* and whose direction is the unit vector from the pivot to the vertex, and
\* a try_pos on the half-line from the pivot through the vertex is returned
\* as it is.
C27_RayFromPivot ==
    OnlyOneAngleEnd =>
        /\ call.ret.state = "Partial"
        /\ call.ret.valid_path = Some(Ray(PivotPosition, PivotBearing))
        /\ TryOnHalfLine => Distance(call.ret.new_pos[1], call.args.try_pos) <= Resolution

\* try_pos was on the half-line, three units from the pivot, and the solve
\* returned the point ten units from the pivot.
C27_NearPivotPushedAway ==
    /\ OnlyOneAngleEnd
    /\ TryOnHalfLine
    /\ Distance(call.args.try_pos, PivotPosition) = 3 * Scale
    /\ call.ret.state = "Partial"
    /\ call.ret.valid_path[1].origin = VAdd(PivotPosition, VTimes(PivotBearing, BearingOffset))
    /\ call.ret.new_pos = Some(call.ret.valid_path[1].origin)

StrictlyIncreasing(s) == \A i, j \in 1 .. Len(s) : i < j => s[i] < s[j]

\* C28 (incident-edge bookkeeping): in every state the edge_handles list of
\* every vertex holds exactly the handles of the stored edges that start or
\* end at the vertex, in increasing order, each of them once.
C28_IncidentEdges ==
    \A vh \in Handles(vertex_map) :
        LET edge_handles == get_vertex(Graph, vh).edge_handles
        IN  /\ {edge_handles[i] : i \in 1 .. Len(edge_handles)} =
                  {eh \in Handles(edge_map) : IsEndpoint(get_edge(Graph, eh), vh)}
            /\ StrictlyIncreasing(edge_handles)

\* add_edge(v, v) succeeded and its handle is twice in v's edge_handles.
C28_LoopEdgeListedTwice ==
    /\ call.op = "add_edge"
    /\ call.args[1] = call.args[2]
    /\ call.ret.tag = "Ok"
    /\ Occurrences(get_vertex(Graph, call.args[1]).edge_handles, call.ret.value) = 2

\* The lists hold the right handles in non-decreasing order, and a handle
\* is in a list twice only for an edge from the vertex to itself.
IncidentEdgesButLoops ==
    \A vh \in Handles(vertex_map) :
        LET edge_handles == get_vertex(Graph, vh).edge_handles
        IN  /\ {edge_handles[i] : i \in 1 .. Len(edge_handles)} =
                  {eh \in Handles(edge_map) : IsEndpoint(get_edge(Graph, eh), vh)}
            /\ \A i, j \in 1 .. Len(edge_handles) : i < j => edge_handles[i] <= edge_handles[j]
            /\ \A eh \in Handles(edge_map) :
                  Occurrences(edge_handles, eh) = (IF ~IsEndpoint(get_edge(Graph, eh), vh) THEN 0 ELSE IF IsLoop(eh) THEN 2 ELSE 1)

\* A failed add_edge and every constraint operation leave the vertex map
\* as it was.
IncidentEdgesUntouched ==
    [][(call'.op \in ConstraintOps \/ (call'.op = "add_edge" /\ call'.ret.tag # "Ok")) => UNCHANGED vertex_map]_vars

\* The place of a kind of locus in the list: circles, then rays, then lines.
KindRank(path) == CASE path.kind = "Circle" -> 1 [] path.kind = "Ray" -> 2 [] path.kind = "Line" -> 3

\* C29 (the surviving locus is the first locus built): the loci of a solve
\* are listed circles first, then rays, then lines, as many circles as
\* length constraints, as many rays as angle-end constraints and as many
\* lines as angle-center and parallel constraints; a Partial response
\* carries the first locus of the list; and the reduction of the first locus
\* with any later one gives the first locus or nothing.
C29_FirstLocusSurvives ==
    PresentVertexSolved =>
        /\ \A i, j \in 1 .. Len(BuiltPaths) : i < j => KindRank(BuiltPaths[i]) <= KindRank(BuiltPaths[j])
        /\ Cardinality({i \in 1 .. Len(BuiltPaths) : BuiltPaths[i].kind = "Circle"}) =
              Len(length_end_constraints(Graph, call.args.vh, call.args.ignore))
        /\ Cardinality({i \in 1 .. Len(BuiltPaths) : BuiltPaths[i].kind = "Ray"}) =
              Len(angle_end_constraints(Graph, call.args.vh, call.args.ignore))
        /\ call.ret.state = "Partial" => call.ret.valid_path = Some(BuiltPaths[1])
        /\ \A i \in 2 .. Len(BuiltPaths) : PairReduce(BuiltPaths[1], BuiltPaths[i]) \in {Some(BuiltPaths[1]), None}

\* A ray and a line along it were reduced and the response is Partial with
\* the ray, which was built first.
C29_RayKeptOverLine ==
    /\ PresentVertexSolved
    /\ Len(BuiltPaths) = 2
    /\ BuiltPaths[1].kind = "Ray"
    /\ BuiltPaths[2].kind = "Line"
    /\ BuiltPaths[2].origin # BuiltPaths[1].origin
    /\ call.ret.state = "Partial"
    /\ call.ret.valid_path = Some(BuiltPaths[1])

\* The position solve_for_edge returned for endpoint n.
ReturnedPosition(n) == call.ret.new_pos[1][n]

\* Endpoint n did not solve Free, and the position returned for it is a
\* point of its surviving locus.
OnOwnLocus(n, r) == r.state # "Free" => LiesOn(ReturnedPosition(n), r.valid_path[1])

\* The surviving locus of the endpoint that did not solve Free, when the
\* other one did.
PartialLocus == IF Endpoint1.state = "Free" THEN Endpoint2.valid_path[1] ELSE Endpoint1.valid_path[1]

\* C30 (Partial only with real intersection points): in every Partial
\* response of solve_for_edge the position returned for an endpoint that
\* did not solve Free lies on that endpoint's surviving locus; and when
\* exactly one endpoint is Free and the edge line does not intersect the
\* other endpoint's locus the response is not Partial.
C30_RealIntersections ==
    /\ (EdgeSolved /\ call.ret.state = "Partial") =>
          /\ OnOwnLocus(1, Endpoint1)
          /\ OnOwnLocus(2, Endpoint2)
    /\ (EdgeSolved /\ call.ret.state \in SolverStates /\ ExactlyOneFree
           /\ intersect_func(EdgeLine(Graph, call.args.eh, call.args.try_pos), PartialLocus) = None)
          => call.ret.state # "Partial"

\* The second endpoint solved Free, the edge line missed the circle of the
\* first one, and the response is Partial with the first endpoint at (0,0),
\* off its circle.
C30_DefaultPointReturned ==
    /\ EdgeSolved
    /\ call.ret.state = "Partial"
    /\ Endpoint1.state = "Partial"
    /\ Endpoint2.state = "Free"
    /\ Endpoint1.valid_path[1].kind = "Circle"
    /\ intersect_func(EdgeLine(Graph, call.args.eh, call.args.try_pos), Endpoint1.valid_path[1]) = None
    /\ ReturnedPosition(1) = PosDefault
    /\ ~LiesOn(PosDefault, Endpoint1.valid_path[1])

\* C23: during a drag, after every tick whose solve result is Locked the
\* dragged vertex, or both endpoints of the dragged edge, are at the positions
\* they had when the drag began.
LastTickLocked ==
    /\ drag.is_being_dragged
    /\ call.op \in {"solve_for_vertex", "solve_for_edge"}
    /\ call.ret.state = "Locked"

C23_LockedAtPreDrag ==
    LastTickLocked =>
        /\ drag.entity = "vertex" => get_vertex(Graph, drag.handle).position = drag.pre_drag_position
        /\ drag.entity = "edge" =>
              get_end_points(Graph, drag.handle) = <<drag.pre_drag_start_point, drag.pre_drag_end_point>>

\* The second tick of an edge drag is Locked and the endpoints are where the
\* first tick put them.
C23_LockedAfterMove ==
    /\ LastTickLocked
    /\ drag.entity = "edge"
    /\ drag.ticks = MaxTicks
    /\ get_end_points(Graph, drag.handle) # <<drag.pre_drag_start_point, drag.pre_drag_end_point>>

\* A Locked tick of a vertex drag finds the vertex where the drag began.
LockedVertexAtPreDrag ==
    (LastTickLocked /\ drag.entity = "vertex") =>
        get_vertex(Graph, drag.handle).position = drag.pre_drag_position

=============================================================================
